---- MODULE Spec2Model ----
(***************************************************************************)
(* Model of the statistics engine of chizzaYearly: the summary store of    *)
(* app/services/analytics_service.py (save_to_database and                 *)
(* load_from_database over the SQLite schema of scripts/init_db.py), the   *)
(* composer combine_stats, and the Wordle result extractor of              *)
(* app/services/wordle_service.py.                                         *)
(*                                                                         *)
(* Conventions.  A date text "YYYY-MM-DD" is modelled by the number of its *)
(* day (dates of that form compare as texts the way their days compare as  *)
(* numbers); the empty text is EmptyDate and SQL NULL is NullInt/NullText. *)
(* A timestamp is a number of time units since the epoch, a day has DayMs  *)
(* of them.  A table row is a function from column names to values, so a   *)
(* row of a table that has no column c has no field c.                     *)
(***************************************************************************)
EXTENDS Integers, Sequences, FiniteSets, TLC

\* ---------------------------------------------------------------- bounds
MaxSaves == 2
MaxLoads == 1
NumVariants == 2
DayMs == 2
CrowdSize == 13

Years == {2024, 2025}

\* ------------------------------------------------------- values and nulls
NullText == "<NULL>"
NullInt == -2
EmptyDate == -1
DefaultGuildName == "Chizza Guild"
SettingsYear == 2025
TopLimit == 10
VeteranLimit == 12

Min(a, b) == IF a < b THEN a ELSE b

Take(seq, n) == SubSeq(seq, 1, Min(n, Len(seq)))

Range(seq) == {seq[i] : i \in 1..Len(seq)}

\* sorted(seq, key=lambda x: x.f, reverse=True): stable, equal keys keep
\* their input order
SortedDesc(seq, f) ==
    LET n == Len(seq)
        rank(i) == 1 + Cardinality({j \in 1..n :
                        \/ seq[j][f] > seq[i][f]
                        \/ seq[j][f] = seq[i][f] /\ j < i})
    IN  [k \in 1..n |-> seq[CHOOSE i \in 1..n : rank(i) = k]]

\* sorted(seq, key=lambda x: x.f): stable, ascending
SortedAsc(seq, f) ==
    LET n == Len(seq)
        rank(i) == 1 + Cardinality({j \in 1..n :
                        \/ seq[j][f] < seq[i][f]
                        \/ seq[j][f] = seq[i][f] /\ j < i})
    IN  [k \in 1..n |-> seq[CHOOSE i \in 1..n : rank(i) = k]]

\* datetime.fromtimestamp(ts / 1000).strftime("%Y-%m-%d")
FormatDate(ts) == ts \div DayMs

\* int(datetime.strptime(text, "%Y-%m-%d").timestamp() * 1000): midnight of
\* the day
ParseDate(d) == d * DayMs

\* ------------------------------------------------------------ the records
\* MemberWrappedStats
MemberWrappedStats(uuid, username, guild_xp, quest_participation, discord_messages, times_pinged, joined_this_year, joined_timestamp, joined_date) ==
    [uuid |-> uuid, username |-> username, guild_xp |-> guild_xp,
     quest_participation |-> quest_participation,
     discord_messages |-> discord_messages, times_pinged |-> times_pinged,
     joined_this_year |-> joined_this_year,
     joined_timestamp |-> joined_timestamp, joined_date |-> joined_date]

\* MemberXPStats: uuid, username, total_xp, joined_timestamp,
\* joined_this_year.  The class declares no quest_participation field and
\* ignores the keyword calculate_yearly_xp passes for it.
MemberXPStats(uuid, username, total_xp, joined_timestamp, joined_this_year) ==
    [uuid |-> uuid, username |-> username, total_xp |-> total_xp,
     joined_timestamp |-> joined_timestamp,
     joined_this_year |-> joined_this_year]

\* UserMessageStats
UserMessageStats(user_id, username, message_count, times_pinged) ==
    [user_id |-> user_id, username |-> username,
     message_count |-> message_count, times_pinged |-> times_pinged]

\* WrappedSummary (the Wordle fields are not stored and are left out here)
WrappedSummary(year, guild_name, total_members, total_guild_xp, total_messages, new_members_count, most_active_day, top_xp_earners, top_messengers, new_members, most_pinged, guild_veterans, fun_facts) ==
    [kind |-> "summary", year |-> year, guild_name |-> guild_name,
     total_members |-> total_members, total_guild_xp |-> total_guild_xp,
     total_messages |-> total_messages,
     new_members_count |-> new_members_count,
     most_active_day |-> most_active_day,
     top_xp_earners |-> top_xp_earners, top_messengers |-> top_messengers,
     new_members |-> new_members, most_pinged |-> most_pinged,
     guild_veterans |-> guild_veterans, fun_facts |-> fun_facts]

\* the outcomes of a call other than a summary
None == [kind |-> "None"]
Raised(e) == [kind |-> "raised", error |-> e]
NoCall == [kind |-> "nocall"]

\* ------------------------------------------------------------ combine_stats
RECURSIVE SumField(_, _)
SumField(seq, f) ==
    IF seq = <<>> THEN 0 ELSE seq[1][f] + SumField(Tail(seq), f)

\* _generate_fun_facts: a sentence is modelled by its template and the
\* values formatted into it
_generate_fun_facts(total_members, total_xp, total_messages, new_members_count, most_active_day, top_earner, top_messenger) ==
    (IF total_members # 0
        THEN << <<"members strong!", total_members>> >> ELSE <<>>)
    \o (IF total_xp # 0
        THEN << <<"total guild XP earned", total_xp>> >>
             \o (IF total_members # 0
                 THEN << <<"average XP per member",
                           total_xp \div total_members>> >>
                 ELSE <<>>)
        ELSE <<>>)
    \o (IF total_messages # 0
        THEN << <<"messages sent in Discord", total_messages>> >>
             \o (IF total_members # 0
                 THEN << <<"average messages per member",
                           total_messages \div total_members>> >>
                 ELSE <<>>)
        ELSE <<>>)
    \o (IF new_members_count # 0
        THEN << <<"new members joined this year", new_members_count>> >>
        ELSE <<>>)
    \o (IF most_active_day # ""
        THEN << <<"Most active day:", most_active_day>> >> ELSE <<>>)
    \o (IF top_earner # None /\ top_earner.guild_xp # 0
        THEN << <<"earned the most XP:", top_earner.username,
                  top_earner.guild_xp>> >>
        ELSE <<>>)
    \o (IF top_messenger # None /\ top_messenger.discord_messages # 0
        THEN << <<"sent the most messages:", top_messenger.username,
                  top_messenger.discord_messages>> >>
        ELSE <<>>)

\* DiscordStats
DiscordStats(total_messages, user_stats, most_active_day) ==
    [total_messages |-> total_messages, user_stats |-> user_stats,
     most_active_day |-> most_active_day]

\* mutant: the entries without mentions are kept
MostPingedUnfiltered(discord_members) ==
    Take(SortedDesc(discord_members, "times_pinged"), TopLimit)

\* sorted(discord_members, key=times_pinged, reverse=True)[:10], then the
\* entries with times_pinged > 0 of it
MostPinged(discord_members) ==
    SelectSeq(Take(SortedDesc(discord_members, "times_pinged"), TopLimit),
              LAMBDA m : m.times_pinged > 0)

\* combine_stats (without the Wordle leaderboards).  Reading
\* hypixel_member.quest_participation raises AttributeError on an object
\* that has no such field.
combine_stats(hypixel_stats, discord_stats, guild_name, total_guild_xp) ==
    IF \E i \in 1..Len(hypixel_stats) :
           "quest_participation" \notin DOMAIN hypixel_stats[i]
    THEN Raised("AttributeError")
    ELSE
    LET combined_members ==
            [i \in 1..Len(hypixel_stats) |->
                LET hm == hypixel_stats[i] IN
                MemberWrappedStats(hm.uuid, hm.username, hm.total_xp,
                    hm.quest_participation, 0, 0, hm.joined_this_year,
                    hm.joined_timestamp, FormatDate(hm.joined_timestamp))]
        discord_members ==
            [i \in 1..Len(discord_stats.user_stats) |->
                LET us == discord_stats.user_stats[i] IN
                MemberWrappedStats("", us.username, 0, 0, us.message_count,
                    us.times_pinged, FALSE, 0, EmptyDate)]
        top_xp == Take(SortedDesc(combined_members, "quest_participation"),
                       TopLimit)
        top_msg == Take(SortedDesc(discord_members, "discord_messages"),
                        TopLimit)
        new_members ==
            SortedDesc(SelectSeq(combined_members,
                                 LAMBDA m : m.joined_this_year),
                       "joined_timestamp")
        most_pinged == MostPinged(discord_members)
        valid_members == SelectSeq(combined_members,
                                   LAMBDA m : m.joined_timestamp > 0)
        guild_veterans == Take(SortedAsc(valid_members, "joined_timestamp"),
                               VeteranLimit)
        total_xp == IF total_guild_xp > 0 THEN total_guild_xp
                    ELSE SumField(combined_members, "guild_xp")
        total_members == Len(combined_members)
        new_members_count == Len(new_members)
        fun_facts ==
            _generate_fun_facts(total_members, total_xp,
                discord_stats.total_messages, new_members_count,
                discord_stats.most_active_day,
                IF top_xp # <<>> THEN top_xp[1] ELSE None,
                IF top_msg # <<>> THEN top_msg[1] ELSE None)
    IN  WrappedSummary(SettingsYear, guild_name, total_members, total_xp,
            discord_stats.total_messages, new_members_count,
            discord_stats.most_active_day, top_xp, top_msg, new_members,
            most_pinged, guild_veterans, fun_facts)

\* ------------------------------------------------------------- the schema
\* CREATE TABLE member_stats of init_db.py (the id column is the position of
\* the row in the table)
InitDbMemberColumns ==
    {"snapshot_id", "member_uuid", "member_name", "guild_xp",
     "discord_messages", "times_pinged", "joined_this_year", "joined_date"}

\* the columns save_to_database writes and load_from_database reads
ServiceMemberColumns == InitDbMemberColumns \cup {"quest_participation"}

\* the DEFAULT of a column of member_stats
ColumnDefault(c) ==
    CASE c \in {"guild_xp", "discord_messages", "times_pinged",
                "joined_this_year"} -> 0
      [] c \in {"member_uuid", "member_name"} -> NullText
      [] OTHER -> NullInt

\* the database after init_database: three empty tables
EmptyDb ==
    [wrapped_snapshots |-> {}, snapshot_seq |-> 0,
     member_stats |-> <<>>, guild_stats |-> <<>>]

\* ------------------------------------------------------ the SQL statements
\* id INTEGER PRIMARY KEY AUTOINCREMENT: one more than the largest id the
\* table ever held
NextSnapshotId(d) == d.snapshot_seq + 1

\* mutant: an upsert that keeps the row of the year and its id
\* (INSERT ... ON CONFLICT(year) DO UPDATE)
UpsertSnapshot(d, year) ==
    IF \E r \in d.wrapped_snapshots : r.year = year
    THEN [db |-> d,
          lastrowid |-> (CHOOSE r \in d.wrapped_snapshots : r.year = year).id]
    ELSE LET id == NextSnapshotId(d) IN
         [db |-> [d EXCEPT
                    !.wrapped_snapshots = @ \cup {[id |-> id, year |-> year]},
                    !.snapshot_seq = id],
          lastrowid |-> id]

\* INSERT OR REPLACE INTO wrapped_snapshots (year, ...): year is UNIQUE, the
\* row of the year is deleted and a new row inserted; lastrowid is its id
InsertOrReplaceSnapshot(d, year) ==
    LET id == NextSnapshotId(d) IN
    [db |-> [d EXCEPT
               !.wrapped_snapshots =
                   {r \in @ : r.year # year} \cup {[id |-> id, year |-> year]},
               !.snapshot_seq = IF id > @ THEN id ELSE @],
     lastrowid |-> id]

\* DELETE FROM member_stats WHERE snapshot_id = ?
DeleteMemberStats(d, snapshot_id) ==
    [d EXCEPT !.member_stats =
        SelectSeq(@, LAMBDA r : r.snapshot_id # snapshot_id)]

\* INSERT INTO member_stats (<columns of values>) VALUES (...): the columns
\* not named take their default
InsertMemberStats(d, columns, values) ==
    [d EXCEPT !.member_stats =
        Append(@, [c \in columns |->
                     IF c \in DOMAIN values THEN values[c]
                     ELSE ColumnDefault(c)])]

\* INSERT OR REPLACE INTO guild_stats: the table has no UNIQUE column besides
\* its own id, so the row is always added
InsertGuildStats(d, values) ==
    [d EXCEPT !.guild_stats = Append(@, values)]

\* mutant: the SELECT without its WHERE clause
SelectSnapshotAnyYear(d, year) ==
    IF d.wrapped_snapshots # {}
    THEN CHOOSE r \in d.wrapped_snapshots : TRUE
    ELSE None

\* SELECT * FROM wrapped_snapshots WHERE year = ?  (fetchone)
SelectSnapshot(d, year) ==
    IF \E r \in d.wrapped_snapshots : r.year = year
    THEN CHOOSE r \in d.wrapped_snapshots : r.year = year
    ELSE None

\* SELECT * FROM guild_stats WHERE snapshot_id = ?  (fetchone)
SelectGuildStats(d, snapshot_id) ==
    LET rows == SelectSeq(d.guild_stats,
                          LAMBDA r : r.snapshot_id = snapshot_id)
    IN  IF rows = <<>> THEN None ELSE rows[1]

\* SELECT * FROM member_stats WHERE snapshot_id = ? ORDER BY guild_xp DESC
SelectMemberStats(d, snapshot_id) ==
    SortedDesc(SelectSeq(d.member_stats,
                         LAMBDA r : r.snapshot_id = snapshot_id),
               "guild_xp")

\* ------------------------------------------------------- save_to_database
BoolToInt(b) == IF b THEN 1 ELSE 0

\* the values of the INSERT for a top XP earner or a new member
MembershipValues(snapshot_id, member) ==
    [snapshot_id |-> snapshot_id, member_uuid |-> member.uuid,
     member_name |-> member.username, guild_xp |-> member.guild_xp,
     quest_participation |-> member.quest_participation,
     joined_this_year |-> BoolToInt(member.joined_this_year),
     joined_date |-> member.joined_date]

\* the values of the INSERT for a top messenger
MessengerValues(snapshot_id, member) ==
    [snapshot_id |-> snapshot_id, member_name |-> member.username,
     discord_messages |-> member.discord_messages,
     times_pinged |-> member.times_pinged]

\* the member INSERTs of one save in their order: the top XP earners, the
\* new members that are not among the top XP earners, the top messengers
MemberInserts(summary, snapshot_id) ==
    [i \in 1..Len(summary.top_xp_earners) |->
        MembershipValues(snapshot_id, summary.top_xp_earners[i])]
    \o
    LET fresh == SelectSeq(summary.new_members,
                     LAMBDA m : m \notin Range(summary.top_xp_earners))
    IN  [i \in 1..Len(fresh) |-> MembershipValues(snapshot_id, fresh[i])]
    \o
    [i \in 1..Len(summary.top_messengers) |->
        MessengerValues(snapshot_id, summary.top_messengers[i])]

\* the values of the INSERT into guild_stats
GuildValues(snapshot_id, summary) ==
    [snapshot_id |-> snapshot_id, total_members |-> summary.total_members,
     total_xp |-> summary.total_guild_xp,
     total_messages |-> summary.total_messages,
     new_members_count |-> summary.new_members_count,
     most_active_day |-> summary.most_active_day]

\* ----------------------------------------------------- load_from_database
\* x or 0
OrZero(x) == IF x = NullInt THEN 0 ELSE x

\* the MemberWrappedStats built from one row; the caller has checked that
\* the row has the columns read here
MemberOfRow(m) ==
    MemberWrappedStats(
        IF m.member_uuid = NullText THEN "" ELSE m.member_uuid,
        m.member_name,
        OrZero(m.guild_xp),
        OrZero(m.quest_participation),
        OrZero(m.discord_messages),
        OrZero(m.times_pinged),
        m.joined_this_year \notin {0, NullInt},
        IF m.joined_date \in {NullInt, EmptyDate} THEN 0
        ELSE ParseDate(m.joined_date),
        IF m.joined_date \in {NullInt, EmptyDate} THEN EmptyDate
        ELSE m.joined_date)

\* mutant: the rows without a join date are not removed
LoadVeteransUnfiltered(all_members) ==
    Take(SortedAsc(all_members, "joined_timestamp"), VeteranLimit)

\* valid_veteran_members and guild_veterans of load_from_database
LoadVeterans(all_members) ==
    LET valid_veteran_members ==
            SelectSeq(all_members, LAMBDA m : m.joined_timestamp > 0)
    IN  Take(SortedAsc(valid_veteran_members, "joined_timestamp"),
             VeteranLimit)

\* the part of load_from_database after the three SELECTs: m[...] of a
\* sqlite3.Row raises IndexError for a column the row does not have
LoadConvert(year, guild_stats, members) ==
    IF \E i \in 1..Len(members) :
           "quest_participation" \notin DOMAIN members[i]
    THEN Raised("IndexError")
    ELSE
    LET all_members == [i \in 1..Len(members) |-> MemberOfRow(members[i])]
        top_xp ==
            SelectSeq(Take(SortedDesc(all_members, "quest_participation"),
                           TopLimit),
                      LAMBDA m : m.quest_participation > 0)
        top_msg == Take(SortedDesc(all_members, "discord_messages"),
                        TopLimit)
        new_members ==
            SortedDesc(SelectSeq(all_members, LAMBDA m : m.joined_this_year),
                       "joined_date")
        most_pinged ==
            SelectSeq(Take(SortedDesc(all_members, "times_pinged"),
                           TopLimit),
                      LAMBDA m : m.times_pinged > 0)
        guild_veterans == LoadVeterans(all_members)
        has == guild_stats # None
    IN  WrappedSummary(year, DefaultGuildName,
            IF has THEN guild_stats.total_members ELSE 0,
            IF has THEN guild_stats.total_xp ELSE 0,
            IF has THEN guild_stats.total_messages ELSE 0,
            IF has THEN guild_stats.new_members_count ELSE 0,
            IF has THEN guild_stats.most_active_day ELSE "",
            top_xp, top_msg, new_members, most_pinged, guild_veterans, <<>>)

\* load_from_database run against one state of the database
LoadOutcome(d, year) ==
    LET snapshot == SelectSnapshot(d, year) IN
    IF snapshot = None THEN None
    ELSE LoadConvert(year, SelectGuildStats(d, snapshot.id),
                     SelectMemberStats(d, snapshot.id))

\* ------------------------------------------- save_to_database, as a whole
RECURSIVE InsertAllMembers(_, _, _)
InsertAllMembers(d, columns, todo) ==
    IF todo = <<>> THEN d
    ELSE InsertAllMembers(InsertMemberStats(d, columns, Head(todo)), columns,
                          Tail(todo))

\* the database after a save_to_database(summary) that ran to its commit
CompleteSave(d, columns, summary) ==
    LET r == InsertOrReplaceSnapshot(d, summary.year)
        d1 == DeleteMemberStats(r.db, r.lastrowid)
        d2 == InsertAllMembers(d1, columns,
                               MemberInserts(summary, r.lastrowid))
    IN  InsertGuildStats(d2, GuildValues(r.lastrowid, summary))

\* ------------------------------------------------------------- the inputs
\* membership entries and message entries of variant v
Alice(v) == MemberWrappedStats("u1", "alice", 10 + v, 3, 0, 0, TRUE,
                               2 * DayMs + 1, FormatDate(2 * DayMs + 1))
Bob(v) == MemberWrappedStats("u2", "bob", 20 + v, 0, 0, 0, FALSE,
                             DayMs, FormatDate(DayMs))
Cleo(v) == MemberWrappedStats("u3", "cleo", 5 + v, 1, 0, 0, TRUE,
                              3 * DayMs, FormatDate(3 * DayMs))
Dan(v) == MemberWrappedStats("", "dan", 0, 0, 4 + v, 0, FALSE, 0, EmptyDate)
Eve(v) == MemberWrappedStats("", "eve", 0, 0, 1, 2 + v, FALSE, 0, EmptyDate)

\* the i-th of a crowd of new members; the one numbered 0 has no join date
Crowd(i) ==
    MemberWrappedStats("c", "crowd", i, 1, 0, 0, TRUE, i * DayMs,
                       IF i = 0 THEN EmptyDate ELSE FormatDate(i * DayMs))

\* the summaries a caller hands to save_to_database: without members, with
\* messengers only, with top earners, new members and messengers, and with
\* a crowd of new members
ArbitrarySummary(year, v, k) ==
    LET name == IF v = 1 THEN DefaultGuildName ELSE "Other Guild"
        day == IF v = 1 THEN "" ELSE "2025-03-01"
        facts == IF k = 0 THEN <<>> ELSE << <<"members strong!", v + k>> >>
        S(xp, msg, new, pinged, vet) ==
            WrappedSummary(year, name, v + k, 100 * v, k, Len(new), day,
                           xp, msg, new, pinged, vet, facts)
    IN  CASE k = 0 -> S(<<>>, <<>>, <<>>, <<>>, <<>>)
          [] k = 3 -> S(<<>>, <<Dan(v)>>,
                        [i \in 1..(CrowdSize + 1) |-> Crowd(i - 1)],
                        <<>>, <<>>)
          [] k = 1 -> S(<<>>, <<Dan(v), Eve(v)>>, <<>>, <<Eve(v)>>, <<>>)
          [] OTHER -> S(<<Alice(v), Bob(v)>>, <<Dan(v), Eve(v)>>,
                        <<Cleo(v), Alice(v)>>, <<Eve(v)>>,
                        <<Bob(v), Alice(v), Cleo(v)>>)

Summaries ==
    {ArbitrarySummary(SettingsYear, v, k) : v \in 1..NumVariants, k \in 0..2}
    \cup {ArbitrarySummary(y, 1, 1) : y \in Years}
    \cup {ArbitrarySummary(SettingsYear, 1, 3)}

\* the statistics a refresh hands to combine_stats
HypixelInputs ==
    {<<>>, <<MemberXPStats("u1", "alice", 11, 2 * DayMs + 1, TRUE)>>}

DiscordInputs ==
    {DiscordStats(0, <<>>, ""),
     DiscordStats(5, <<UserMessageStats(1, "dan", 4, 0),
                       UserMessageStats(2, "eve", 1, 2)>>, "2025-03-01")}

GuildXpInputs == {50}

CombineOutputs ==
    {combine_stats(h, d, "Chizza Guild", x) :
        h \in HypixelInputs, d \in DiscordInputs, x \in GuildXpInputs}

\* ============================================ wordle_service.WordleService
\* Strings the parser looks into are sequences of one-character strings.
MaxPieces == 4
MaxMessages == 2

Digits == <<"0", "1", "2", "3", "4", "5", "6", "7", "8", "9">>

IsDigit(c) == \E d \in 1..10 : Digits[d] = c

\* the characters \s matches, of those that occur in the inputs
IsSpace(c) == c \in {" ", "\n", "\t"}

\* the character at index i of s (from 1), "" outside s
At(s, i) == IF i \in 1..Len(s) THEN s[i] ELSE ""

\* int(score) for a one-digit score
DigitValue(c) == (CHOOSE d \in 1..10 : Digits[d] = c) - 1

\* str(user_id): the decimal digits of a non-negative integer
RECURSIVE Str(_)
Str(n) ==
    IF n < 10 THEN <<Digits[n + 1]>>
    ELSE Str(n \div 10) \o <<Digits[(n % 10) + 1]>>

\* str.lower() on the letters that occur in the inputs
LowerChar(c) ==
    CASE c = "W" -> "w" [] c = "O" -> "o" [] c = "R" -> "r"
      [] c = "D" -> "d" [] c = "L" -> "l" [] c = "E" -> "e"
      [] c = "B" -> "b" [] c = "X" -> "x" [] OTHER -> c

Lower(s) == [i \in 1..Len(s) |-> LowerChar(s[i])]

WordleName == <<"w", "o", "r", "d", "l", "e">>

UserPrefix == <<"U", "s", "e", "r", "_">>

\* \s* from index i: the index of the first character that is not a space
RECURSIVE SkipSpaces(_, _)
SkipSpaces(s, i) == IF IsSpace(At(s, i)) THEN SkipSpaces(s, i + 1) ELSE i

\* \d* from index i: the index of the first character that is not a digit
RECURSIVE SkipDigits(_, _)
SkipDigits(s, i) == IF IsDigit(At(s, i)) THEN SkipDigits(s, i + 1) ELSE i

\* <@\d+> at index i: the index after the closing '>', 0 when it does not match
MentionEnd(s, i) ==
    IF /\ At(s, i) = "<" /\ At(s, i + 1) = "@" /\ IsDigit(At(s, i + 2))
       /\ At(s, SkipDigits(s, i + 2)) = ">"
    THEN SkipDigits(s, i + 2) + 1
    ELSE 0

\* mutant: the pattern without the repeated group, one mention per result
MentionsEndFirstOnly(s, i) == i

\* (?:\s*<@\d+>)* from index i, greedy: the index after the last mention
RECURSIVE MentionsEnd(_, _)
MentionsEnd(s, i) ==
    LET e == MentionEnd(s, SkipSpaces(s, i))
    IN  IF e # 0 THEN MentionsEnd(s, e) ELSE i

NoMatch == [matched |-> FALSE]

\* RESULT_PATTERN anchored at index p: group 1 is the score character, group 2
\* runs from the first mention to the end of the match
MatchAt(s, p) ==
    LET j == SkipSpaces(s, p + 4)
        e == MentionEnd(s, j)
    IN  IF /\ (At(s, p) = "X" \/ IsDigit(At(s, p)))
           /\ At(s, p + 1) = "/" /\ At(s, p + 2) = "6" /\ At(s, p + 3) = ":"
           /\ e # 0
        THEN [matched |-> TRUE, score |-> s[p],
              mentions_str |-> SubSeq(s, j, MentionsEnd(s, e) - 1),
              end |-> MentionsEnd(s, e)]
        ELSE NoMatch

\* RESULT_PATTERN.finditer(content): the matches from left to right, each
\* search resuming where the previous match ended
RECURSIVE FindIter(_, _)
FindIter(s, pos) ==
    IF pos > Len(s) THEN <<>>
    ELSE LET m == MatchAt(s, pos)
         IN  IF m.matched THEN <<m>> \o FindIter(s, m.end)
             ELSE FindIter(s, pos + 1)

\* USER_MENTION_PATTERN.findall(mentions_str): the digit groups, left to right
RECURSIVE FindAllMentions(_, _)
FindAllMentions(s, pos) ==
    IF pos > Len(s) THEN <<>>
    ELSE LET e == MentionEnd(s, pos)
         IN  IF e # 0
             THEN <<SubSeq(s, pos + 2, e - 2)>> \o FindAllMentions(s, e)
             ELSE FindAllMentions(s, pos + 1)

WordleResult(author_name, wordle_number, guesses, is_win) ==
    [author_name |-> author_name, wordle_number |-> wordle_number,
     guesses |-> guesses, is_win |-> is_win]

DiscordMessage(author_name, content) ==
    [author_name |-> author_name, content |-> content]

WordleUser(user_id, username) == [user_id |-> user_id, username |-> username]

\* {str(stat.user_id): stat.username for stat in user_stats}: for a repeated
\* id the last entry stays
IdToUsername(user_stats) ==
    [k \in {Str(user_stats[i].user_id) : i \in DOMAIN user_stats} |->
        LET last == CHOOSE i \in DOMAIN user_stats :
                        /\ Str(user_stats[i].user_id) = k
                        /\ \A j \in DOMAIN user_stats :
                               Str(user_stats[j].user_id) = k => j <= i
        IN  user_stats[last].username]

\* mutant: every unresolved id gets the same name
UsernameOfUnknown(id_to_username, user_id) ==
    IF user_id \in DOMAIN id_to_username THEN id_to_username[user_id]
    ELSE <<"U", "n", "k", "n", "o", "w", "n">>

\* id_to_username.get(user_id, f"User_{user_id}")
UsernameOf(id_to_username, user_id) ==
    IF user_id \in DOMAIN id_to_username THEN id_to_username[user_id]
    ELSE UserPrefix \o user_id

\* the events of one match: one per mention, all with the values of the score
MatchResults(id_to_username, m) ==
    LET is_x == m.score = "X"
        guesses == IF is_x THEN 7 ELSE DigitValue(m.score)
        user_ids == FindAllMentions(m.mentions_str, 1)
    IN  [k \in 1..Len(user_ids) |->
            WordleResult(UsernameOf(id_to_username, user_ids[k]), 0,
                         guesses, ~is_x)]

RECURSIVE Flatten(_)
Flatten(seqs) ==
    IF seqs = <<>> THEN <<>> ELSE Head(seqs) \o Flatten(Tail(seqs))

MessageResults(id_to_username, msg) ==
    LET matches == FindIter(msg.content, 1)
    IN  Flatten([k \in 1..Len(matches) |->
                    MatchResults(id_to_username, matches[k])])

IsWordleBot(msg) == Lower(msg.author_name) = WordleName

parse_wordle_results(msgs, stats) ==
    LET id_to_username == IdToUsername(stats)
        wordle_bot_msgs == SelectSeq(msgs, IsWordleBot)
    IN  Flatten([k \in 1..Len(wordle_bot_msgs) |->
                    MessageResults(id_to_username, wordle_bot_msgs[k])])

\* ------------------------------------------------------ the parser's inputs
Pieces ==
    { <<"3", "/", "6", ":">>, <<"X", "/", "6", ":">>, <<"x", "/", "6", ":">>,
      <<" ">>, <<"<", "@", "1", ">">>, <<"<", "@", "2", "2", ">">>,
      <<"<", "@", "7">>, <<"1">>, <<"9", "/", "6", ":">> }

RECURSIVE Contents(_)
Contents(n) ==
    IF n = 0 THEN {<<>>}
    ELSE Contents(n - 1) \cup
         {c \o p : c \in Contents(n - 1), p \in Pieces}

WordleBot == <<"W", "o", "r", "d", "l", "e">>

AuthorNames ==
    { WordleBot, <<"W", "O", "R", "D", "L", "E">>, WordleName,
      <<"b", "o", "b">>, <<"W", "o", "r", "d", "l", "e", "X">> }

ThreeMentions ==
    <<"3", "/", "6", ":", "<", "@", "1", ">", "<", "@", "2", "2", ">",
      "<", "@", "1", ">">>

ShortContents ==
    { <<"3", "/", "6", ":", " ", "<", "@", "1", ">">>,
      <<"X", "/", "6", ":", "<", "@", "2", "2", ">">>, <<"1">> }

ShortMessages ==
    {DiscordMessage(a, c) : a \in AuthorNames, c \in ShortContents}

RECURSIVE MessageLists(_)
MessageLists(n) ==
    IF n = 0 THEN {<<>>}
    ELSE MessageLists(n - 1) \cup
         {l \o <<m>> : l \in MessageLists(n - 1), m \in ShortMessages}

Ann == <<"a", "n", "n">>

UserStatsInputs ==
    { <<>>,
      <<WordleUser(1, Ann)>>,
      <<WordleUser(1, Ann), WordleUser(22, <<"b", "o">>),
        WordleUser(1, <<"a", "l">>)>> }

\* one message of the bot with any content, or several short messages of any
\* authors
WordleInputs ==
    {<<DiscordMessage(WordleBot, c)>> : c \in Contents(MaxPieces)}
        \cup MessageLists(MaxMessages)

\* ------------------------------------------------ calculate_stats (wordle)
MaxEvents == 4

\* round(num / den) to the nearest integer, a tie going to the even one
RoundHalfEven(num, den) ==
    LET q == num \div den
        r == num % den
    IN  IF 2 * r < den THEN q
        ELSE IF 2 * r > den THEN q + 1
        ELSE IF q % 2 = 0 THEN q ELSE q + 1

\* win_rate is kept in tenths of a percent, average_guesses in hundredths
WordleUserStats(username, total_games, wins, losses, win_rate, average_guesses) ==
    [username |-> username, total_games |-> total_games, wins |-> wins,
     losses |-> losses, win_rate |-> win_rate,
     average_guesses |-> average_guesses]

WordleStats(total_games, total_wins, total_losses, stats) ==
    [total_games |-> total_games, total_wins |-> total_wins,
     total_losses |-> total_losses, user_stats |-> stats]

\* mutant: a name takes the place of its last event
RECURSIVE FirstEncounterLast(_, _)
FirstEncounterLast(events, seen) ==
    IF events = <<>> THEN <<>>
    ELSE IF \E i \in 2..Len(events) :
                events[i].author_name = Head(events).author_name
         THEN FirstEncounterLast(Tail(events), seen)
         ELSE <<Head(events).author_name>>
                  \o FirstEncounterLast(Tail(events), seen)

\* the keys of user_results in the order of their insertion
RECURSIVE FirstEncounter(_, _)
FirstEncounter(events, seen) ==
    IF events = <<>> THEN <<>>
    ELSE IF Head(events).author_name \in seen
         THEN FirstEncounter(Tail(events), seen)
         ELSE <<Head(events).author_name>>
                  \o FirstEncounter(Tail(events),
                                    seen \cup {Head(events).author_name})

RECURSIVE SumGuesses(_)
SumGuesses(events) ==
    IF events = <<>> THEN 0
    ELSE Head(events).guesses + SumGuesses(Tail(events))

IsWin(g) == g.is_win

IsLoss(g) == ~g.is_win

UserStatsOf(username, events) ==
    LET Mine(g) == g.author_name = username
        user_games == SelectSeq(events, Mine)
        wins == SelectSeq(user_games, IsWin)
        losses == SelectSeq(user_games, IsLoss)
        total_games == Len(user_games)
    IN  WordleUserStats(username, total_games, Len(wins), Len(losses),
            IF total_games > 0
            THEN RoundHalfEven(Len(wins) * 1000, total_games) ELSE 0,
            IF wins # <<>>
            THEN RoundHalfEven(SumGuesses(wins) * 100, Len(wins)) ELSE 0)

calculate_stats(events) ==
    LET names == FirstEncounter(events, {})
    IN  WordleStats(Len(events), Len(SelectSeq(events, IsWin)),
                    Len(SelectSeq(events, IsLoss)),
                    [k \in 1..Len(names) |-> UserStatsOf(names[k], events)])

\* the event lists calculate_stats is called with
EventNames == {Ann, <<"A", "n", "n">>, <<"b", "o">>}

Events ==
    {WordleResult(n, 0, g, g # 7) : n \in EventNames, g \in {3, 5, 7}}

RECURSIVE EventLists(_)
EventLists(n) ==
    IF n = 0 THEN {<<>>}
    ELSE EventLists(n - 1) \cup
         {l \o <<e>> : l \in EventLists(n - 1), e \in Events}

\* ------------------------------------------------------- get_top_winners
DefaultLimit == 5

Limits == {0, 1, 2, DefaultLimit}

HasGames(u) == u.total_games > 0

\* mutant: the win rate is compared before the wins
WinnerKeyGreaterRateFirst(a, b) ==
    \/ a.win_rate > b.win_rate
    \/ a.win_rate = b.win_rate /\ a.wins > b.wins

\* (a.wins, a.win_rate) > (b.wins, b.win_rate), as tuples compare
WinnerKeyGreater(a, b) ==
    \/ a.wins > b.wins
    \/ a.wins = b.wins /\ a.win_rate > b.win_rate

\* x, which comes after all of sorted in the input, takes its place behind
\* the records whose key is not smaller
RECURSIVE InsertWinner(_, _)
InsertWinner(sorted, x) ==
    IF sorted = <<>> THEN <<x>>
    ELSE IF WinnerKeyGreater(x, Head(sorted))
         THEN <<x>> \o sorted
         ELSE <<Head(sorted)>> \o InsertWinner(Tail(sorted), x)

\* sorted(qualified, key=lambda x: (x.wins, x.win_rate), reverse=True)
RECURSIVE SortWinners(_)
SortWinners(seq) ==
    IF seq = <<>> THEN <<>>
    ELSE InsertWinner(SortWinners(SubSeq(seq, 1, Len(seq) - 1)),
                      seq[Len(seq)])

\* sorted_stats[:limit] for limit >= 0
get_top_winners(stats, limit) ==
    Take(SortWinners(SelectSeq(stats.user_stats, HasGames)), limit)

\* WordleStats objects a caller builds itself: records without games, and
\* records equal in wins and win rate
CallerStats ==
    { WordleStats(1, 1, 0,
          <<WordleUserStats(Ann, 0, 0, 0, 0, 0),
            WordleUserStats(<<"b", "o">>, 1, 1, 0, 1000, 300)>>),
      WordleStats(4, 2, 2,
          <<WordleUserStats(<<"b", "o">>, 2, 1, 1, 500, 300),
            WordleUserStats(<<"A", "n", "n">>, 0, 0, 0, 0, 0),
            WordleUserStats(Ann, 2, 1, 1, 500, 500)>>) }

\* =========================================== discord_service.DiscordService
MaxChat == 3

\* DiscordMessage as calculate_stats reads it; the timestamp is a sequence
\* of characters
ChatMessage(author_id, author_name, mentions, timestamp) ==
    [author_id |-> author_id, author_name |-> author_name,
     mentions |-> mentions, timestamp |-> timestamp]

DateLength == 10

\* counts[key] += 1 on a mapping kept as a function
Bump(counts, key) ==
    IF key \in DOMAIN counts THEN [counts EXCEPT ![key] = @ + 1]
    ELSE counts @@ (key :> 1)

\* mutant: an id mentioned twice in a message is counted once
RECURSIVE BumpAllOnce(_, _)
BumpAllOnce(counts, keys) ==
    IF keys = <<>> THEN counts
    ELSE IF \E i \in 2..Len(keys) : keys[i] = Head(keys)
         THEN BumpAllOnce(counts, Tail(keys))
         ELSE BumpAllOnce(Bump(counts, Head(keys)), Tail(keys))

\* for mentioned_id in msg.mentions: mention_counts[mentioned_id] += 1
RECURSIVE BumpAll(_, _)
BumpAll(counts, keys) ==
    IF keys = <<>> THEN counts
    ELSE BumpAll(Bump(counts, Head(keys)), Tail(keys))

\* day_counts[day] += 1 on a Counter kept as the sequence of its items in
\* the order of their insertion
RECURSIVE BumpDay(_, _)
BumpDay(items, day) ==
    IF items = <<>> THEN <<[day |-> day, count |-> 1]>>
    ELSE IF Head(items).day = day
         THEN <<[day |-> day, count |-> Head(items).count + 1]>>
                  \o Tail(items)
         ELSE <<Head(items)>> \o BumpDay(Tail(items), day)

EmptyTally ==
    [message_counts |-> <<>>, mention_counts |-> <<>>, user_names |-> <<>>,
     day_counts |-> <<>>]

\* the loop over the messages
RECURSIVE Tally(_, _)
Tally(msgs, acc) ==
    IF msgs = <<>> THEN acc
    ELSE LET msg == Head(msgs)
         IN  Tally(Tail(msgs),
                 [message_counts |-> Bump(acc.message_counts, msg.author_id),
                  user_names |->
                      IF msg.author_id \in DOMAIN acc.user_names
                      THEN [acc.user_names EXCEPT
                               ![msg.author_id] = msg.author_name]
                      ELSE acc.user_names
                               @@ (msg.author_id :> msg.author_name),
                  mention_counts |-> BumpAll(acc.mention_counts, msg.mentions),
                  day_counts |->
                      BumpDay(acc.day_counts,
                              Take(msg.timestamp, DateLength))])

\* mutant: of the items with the highest count the last one
MostCommonLast(items, best) ==
    LET top == CHOOSE i \in DOMAIN items :
                   /\ \A j \in DOMAIN items : items[j].count <= items[i].count
                   /\ \A j \in DOMAIN items :
                          items[j].count = items[i].count => j <= i
    IN  IF items = <<>> THEN best ELSE items[top]

\* day_counts.most_common(1)[0]: max() over the items, which keeps the first
\* of the items with the highest count
RECURSIVE MostCommon(_, _)
MostCommon(items, best) ==
    IF items = <<>> THEN best
    ELSE MostCommon(Tail(items),
                    IF Head(items).count > best.count THEN Head(items)
                    ELSE best)

\* the orders in which a set can be iterated
Orders(S) ==
    {o \in [1..Cardinality(S) -> S] :
        \A i, j \in 1..Cardinality(S) : i # j => o[i] # o[j]}

AllUserIds(acc) == DOMAIN acc.message_counts \cup DOMAIN acc.mention_counts

\* calculate_stats with the records in the order in which all_user_ids is
\* iterated
discord_calculate_stats(msgs, order) ==
    LET acc == Tally(msgs, EmptyTally)
    IN  DiscordStats(Len(msgs),
            [k \in 1..Len(order) |->
                UserMessageStats(order[k],
                    IF order[k] \in DOMAIN acc.user_names
                    THEN acc.user_names[order[k]] ELSE "Unknown",
                    IF order[k] \in DOMAIN acc.message_counts
                    THEN acc.message_counts[order[k]] ELSE 0,
                    IF order[k] \in DOMAIN acc.mention_counts
                    THEN acc.mention_counts[order[k]] ELSE 0)],
            IF acc.day_counts # <<>>
            THEN MostCommon(Tail(acc.day_counts), Head(acc.day_counts)).day
            ELSE <<>>)

\* the messages calculate_stats is called with
MarchFirst == <<"2", "0", "2", "5", "-", "0", "3", "-", "0", "1">>

MarchSecond == <<"2", "0", "2", "5", "-", "0", "3", "-", "0", "2">>

Timestamps ==
    { MarchFirst \o <<"T", "0", "9", ":", "0", "0">>,
      MarchFirst \o <<"T", "2", "3", ":", "5", "9">>,
      MarchSecond \o <<"T", "0", "0", ":", "0", "0">>,
      <<"2", "0", "2", "5">> }

ChatMessages ==
    {ChatMessage(a[1], a[2], m, MarchFirst \o <<"T", "0", "9", ":", "0", "0">>) :
        a \in {<<1, "ann">>, <<1, "al">>, <<2, "bo">>},
        m \in {<<>>, <<3, 3>>, <<1>>}}
    \cup {ChatMessage(2, "bo", <<>>, t) : t \in Timestamps}

RECURSIVE ChatLists(_)
ChatLists(n) ==
    IF n = 0 THEN {<<>>}
    ELSE ChatLists(n - 1) \cup
         {l \o <<m>> : l \in ChatLists(n - 1), m \in ChatMessages}

\* =================================== the Wordle leaderboards of a summary
\* DiscordMessage with all its fields; author_name is a text, content and
\* timestamp are sequences of characters
BoardMessage(author_id, author_name, content, mentions, timestamp) ==
    [author_id |-> author_id, author_name |-> author_name,
     content |-> content, mentions |-> mentions, timestamp |-> timestamp]

\* the characters of a text, for the texts that occur as names
Chars(text) ==
    CASE text = "Wordle" -> WordleBot
      [] text = "ann" -> Ann
      [] text = "al" -> <<"a", "l">>
      [] text = "bo" -> <<"b", "o">>
      [] text = "Unknown" -> <<"U", "n", "k", "n", "o", "w", "n">>

HasLosses(u) == u.losses > 0

\* get_top_failures: sorted(with_losses, key=losses, reverse=True)[:limit]
get_top_failures(stats, limit) ==
    Take(SortedDesc(SelectSeq(stats.user_stats, HasLosses), "losses"), limit)

\* the Wordle fields of a summary
Boards(winners, failures, games) ==
    [wordle_top_winners |-> winners, wordle_top_failures |-> failures,
     total_wordle_games |-> games]

NoBoards == Boards(<<>>, <<>>, 0)

\* parse_wordle_results, calculate_stats, get_top_winners(limit=5),
\* get_top_failures(limit=5) and total_games, as combine_stats and
\* load_from_database both call them
BoardsOf(msgs, stats) ==
    LET texts == [i \in 1..Len(msgs) |->
                     DiscordMessage(Chars(msgs[i].author_name),
                                    msgs[i].content)]
        wordle_results == parse_wordle_results(texts, stats)
        computed == calculate_stats(wordle_results)
    IN  Boards(get_top_winners(computed, DefaultLimit),
               get_top_failures(computed, DefaultLimit),
               computed.total_games)

\* combine_stats: if discord_messages, the names come from
\* discord_stats.user_stats
CombineBoards(discord_messages, stats) ==
    IF discord_messages = <<>> THEN NoBoards
    ELSE BoardsOf(discord_messages,
                  [i \in 1..Len(stats.user_stats) |->
                      WordleUser(stats.user_stats[i].user_id,
                                 Chars(stats.user_stats[i].username))])

\* [x for x in user_stats if x.user_id not in seen and not seen.add(...)]
RECURSIVE DedupByUserId(_, _)
DedupByUserId(stats, seen) ==
    IF stats = <<>> THEN <<>>
    ELSE IF Head(stats).user_id \in seen
         THEN DedupByUserId(Tail(stats), seen)
         ELSE <<Head(stats)>>
                  \o DedupByUserId(Tail(stats),
                                   seen \cup {Head(stats).user_id})

\* load_from_database: if cached_messages, the names come from the authors
\* of the messages
LoadBoards(cached_messages) ==
    IF cached_messages = <<>> THEN NoBoards
    ELSE BoardsOf(cached_messages,
                  DedupByUserId(
                      [i \in 1..Len(cached_messages) |->
                          WordleUser(cached_messages[i].author_id,
                                     Chars(cached_messages[i].author_name))],
                      {}))

\* data/cache/<year>/discord_messages.json: no such file, a file that is
\* not the JSON of a list of messages, or a file with a list of messages
AbsentCache == [kind |-> "absent"]
CorruptCache == [kind |-> "corrupt"]
CacheOf(msgs) == [kind |-> "file", data |-> msgs]

\* DiscordService.load_cached_messages: json.load or DiscordMessage(**msg)
\* raises on a file that is not the JSON of a list of messages
load_cached_messages(cache) ==
    CASE cache.kind = "absent" -> [kind |-> "list", list |-> <<>>]
      [] cache.kind = "corrupt" -> Raised("ValueError")
      [] cache.kind = "file" -> [kind |-> "list", list |-> cache.data]

\* the try block of load_from_database: any exception leaves the Wordle
\* fields as they were initialised
LoadWordle(cache) ==
    LET cached_messages == load_cached_messages(cache)
    IN  IF cached_messages.kind = "raised" THEN NoBoards
        ELSE LoadBoards(cached_messages.list)

\* the message lists of the leaderboards: the bot reports results of ann
\* (1), who writes under two names, and of 22 and 3, who never write
NineOClock == MarchFirst \o <<"T", "0", "9", ":", "0", "0">>

ResultLines ==
    { <<<<"3", "/", "6", ":", " ", "<", "@", "1", ">">>, <<1>>>>,
      <<<<"X", "/", "6", ":", " ", "<", "@", "2", "2", ">", " ",
          "<", "@", "3", ">">>, <<22, 3>>>>,
      <<<<"4", "/", "6", ":", " ", "<", "@", "3", ">">>, <<3>>>> }

BoardMessages ==
    {BoardMessage(9, "Wordle", l[1], l[2], NineOClock) : l \in ResultLines}
    \cup {BoardMessage(1, n, <<"1">>, <<>>, NineOClock) : n \in {"ann", "al"}}

MaxBoard == 3

RECURSIVE BoardLists(_)
BoardLists(n) ==
    IF n = 0 THEN {<<>>}
    ELSE BoardLists(n - 1) \cup
         {l \o <<m>> : l \in BoardLists(n - 1), m \in BoardMessages}

\* the states of the cache file a load finds
CacheStates ==
    {AbsentCache, CorruptCache, CacheOf(<<>>),
     CacheOf(<<BoardMessage(1, "ann", <<"1">>, <<>>, NineOClock),
               BoardMessage(9, "Wordle",
                   <<"X", "/", "6", ":", " ", "<", "@", "1", ">">>, <<1>>,
                   NineOClock)>>)}

\* =========================================== hypixel_service.HypixelService
MaxMembers == 2

\* a key of exp_history: text of the form year-month-day (any numbers), or
\* other text
DateKey(y, m, d) == [form |-> "y-m-d", year |-> y, month |-> m, day |-> d]

OtherKey == [form |-> "other"]

IsLeap(y) == (y % 4 = 0 /\ y % 100 # 0) \/ y % 400 = 0

DaysIn(y, m) ==
    IF m = 2 THEN (IF IsLeap(y) THEN 29 ELSE 28)
    ELSE IF m \in {4, 6, 9, 11} THEN 30 ELSE 31

\* datetime values: <<year, month, day, second of the day, microsecond>>
DateTime(y, m, d, sec, us) == <<y, m, d, sec, us>>

ValueError == [kind |-> "ValueError"]

\* datetime.strptime(date_str, "%Y-%m-%d"): midnight of the day, ValueError
\* for other text, a month outside 1..12 or a day the month does not have
Strptime(key) ==
    IF /\ key.form = "y-m-d"
       /\ key.month \in 1..12
       /\ key.day \in 1..DaysIn(key.year, key.month)
    THEN DateTime(key.year, key.month, key.day, 0, 0)
    ELSE ValueError

\* a <= b on datetime values
RECURSIVE TupleLeq(_, _)
TupleLeq(a, b) ==
    IF a = <<>> THEN TRUE
    ELSE IF Head(a) # Head(b) THEN Head(a) < Head(b)
    ELSE TupleLeq(Tail(a), Tail(b))

\* an epoch timestamp in milliseconds, kept as the local calendar day it
\* falls on and the milliseconds since that day's midnight
Instant(y, m, d, ms) == [year |-> y, month |-> m, day |-> d, ms |-> ms]

MsPerSecond == 1000

LastSecond == 86399

\* datetime.fromtimestamp(joined / 1000)
FromTimestamp(joined) ==
    DateTime(joined.year, joined.month, joined.day,
             joined.ms \div MsPerSecond,
             (joined.ms % MsPerSecond) * 1000)

\* datetime(year, 1, 1)
StartDate(year) == DateTime(year, 1, 1, 0, 0)

\* datetime(year, 12, 31, 23, 59, 59)
EndDate(year) == DateTime(year, 12, 31, LastSecond, 0)

InYear(date, year) ==
    TupleLeq(StartDate(year), date) /\ TupleLeq(date, EndDate(year))

GuildMember(uuid, joined, exp_history, quest_participation) ==
    [uuid |-> uuid, joined |-> joined, exp_history |-> exp_history,
     quest_participation |-> quest_participation]

\* the loop over exp_history.items(), a sequence of <<key, xp>>
RECURSIVE YearlyXp(_, _)
YearlyXp(items, year) ==
    IF items = <<>> THEN 0
    ELSE LET date == Strptime(Head(items)[1])
         IN  (IF date # ValueError /\ InYear(date, year)
              THEN Head(items)[2] ELSE 0)
                 + YearlyXp(Tail(items), year)

\* MemberXPStats(uuid=, total_xp=, quest_participation=, joined_timestamp=,
\* joined_this_year=): the model has no field quest_participation and drops
\* the argument; username keeps its default
MemberStatsOf(member, year) ==
    MemberXPStats(member.uuid, "Unknown",
                  YearlyXp(member.exp_history, year), member.joined,
                  InYear(FromTimestamp(member.joined), year))

\* member_stats.sort(key=lambda x: x.quest_participation, reverse=True):
\* the key is read from every record before anything is moved
SortByParticipation(member_stats) ==
    IF \E i \in DOMAIN member_stats :
           "quest_participation" \notin DOMAIN member_stats[i]
    THEN Raised("AttributeError")
    ELSE [kind |-> "list",
          list |-> SortedDesc(member_stats, "quest_participation")]

\* the members calculate_yearly_xp is called with
ExpHistories ==
    { <<>>,
      << <<DateKey(2025, 1, 1), 1>>, <<DateKey(2025, 12, 31), 2>>,
         <<DateKey(2024, 12, 31), 4>>, <<DateKey(2026, 1, 1), 8>> >>,
      << <<DateKey(2026, 1, 1), 8>>, <<DateKey(2025, 12, 31), 2>>,
         <<DateKey(2024, 12, 31), 4>>, <<DateKey(2025, 1, 1), 1>> >>,
      << <<DateKey(2025, 2, 30), 16>>, <<DateKey(2025, 6, 15), 32>>,
         <<OtherKey, 64>>, <<DateKey(2024, 2, 29), 128>> >> }

JoinInstants ==
    { Instant(2025, 1, 1, 0), Instant(2024, 12, 31, 86399999),
      Instant(2025, 12, 31, 86399000), Instant(2025, 12, 31, 86399999),
      Instant(2026, 1, 1, 0) }

GuildMembers ==
    {GuildMember("u1", j, h, 3) : j \in JoinInstants, h \in ExpHistories}
        \cup {GuildMember("u2", Instant(2025, 1, 1, 0), <<>>, q) :
                 q \in {0, 3, 7}}

RECURSIVE MemberLists(_)
MemberLists(n) ==
    IF n = 0 THEN {<<>>}
    ELSE MemberLists(n - 1) \cup
         {l \o <<m>> : l \in MemberLists(n - 1), m \in GuildMembers}

\* ----------------------------------------- the arguments of combine_stats
\* the records calculate_yearly_xp builds: MemberXPStats objects
XpStats ==
    { MemberXPStats("u1", "alice", 11, 2 * DayMs + 1, TRUE),
      MemberXPStats("u2", "bob", 5, DayMs, FALSE),
      MemberXPStats("u3", "Unknown", 0, 0, FALSE) }

RECURSIVE XpStatsLists(_)
XpStatsLists(n) ==
    IF n = 0 THEN {<<>>}
    ELSE XpStatsLists(n - 1) \cup
         {l \o <<m>> : l \in XpStatsLists(n - 1), m \in XpStats}


\* DiscordStats of n users; user i was pinged (i * k) % 5 times
CrowdStats(n, k) ==
    DiscordStats(n, [i \in 1..n |->
                        UserMessageStats(i, "user", (i * 7) % 4, (i * k) % 5)],
                 "2025-03-01")

CombineArgs ==
    {[hypixel_stats |-> h, discord_stats |-> d, guild_name |-> g,
      total_guild_xp |-> x] :
        h \in XpStatsLists(MaxMembers),
        d \in DiscordInputs \cup {CrowdStats(CrowdSize, k) : k \in {0, 3}}
                 \cup {CrowdStats(4, 3)},
        g \in {DefaultGuildName, "Other Guild"}, x \in {0} \cup GuildXpInputs}

\* ---------------------------------------------------------------- the state
VARIABLES
    member_stats_columns, \* the columns of table member_stats
    db,                   \* the committed content of the database file
    stale_conn,           \* a connection of a failed save still holds the
                          \* write lock (it is closed when collected)
    save_pc, save_arg, save_sid, save_todo, txn, save_result, nsaves,
    load_pc, load_year, load_sid, load_guild, load_members, load_result,
    nloads,
    load_cache,           \* the cache file of the year as it is when the
                          \* load converts its rows
    load_wordle,          \* the Wordle fields of the summary the load returned
    saved,                \* history: year -> summary of the last committed save
    prev_saved,           \* history: year -> summary of the committed save
                          \* before the last one
    load_versions,        \* history: the values of saved[load_year] from the
                          \* first SELECT of the load to its return
    messages, user_stats, \* the arguments of parse_wordle_results
    wordle_pc,            \* "idle", "called" or "done"
    results,              \* the list parse_wordle_results returned
    stats_pc,             \* "idle", "computed" or "given" (by the caller)
    wordle_stats,         \* the WordleStats calculate_stats returned
    top_winners,          \* the limit and the list of get_top_winners
    chat_messages,        \* the argument of DiscordService.calculate_stats
    chat_stats,           \* the DiscordStats it returned
    xp_pc,                \* calculate_yearly_xp: "idle", "tally", "sort", "done"
    xp_members, xp_year,  \* its arguments
    xp_member_stats,      \* its list member_stats
    xp_result,            \* what it returned or raised
    cs_args, cs_result,   \* combine_stats: its arguments, and what it
                          \* returned or raised
    ff_args, ff_result,   \* _generate_fun_facts: its arguments, and the
                          \* list it returned
    lb_messages,          \* a message list, fetched and cached
    lb_combine, lb_load   \* the Wordle fields combine_stats computes for it
                          \* and those load_from_database computes for it

vars == <<member_stats_columns, db, stale_conn, save_pc, save_arg, save_sid,
          save_todo, txn, save_result, nsaves, load_pc, load_year, load_sid,
          load_guild, load_members, load_result, nloads, saved, prev_saved,
          load_versions, messages, user_stats, wordle_pc, results,
          stats_pc, wordle_stats, top_winners, chat_messages, chat_stats,
          xp_pc, xp_members, xp_year, xp_member_stats, xp_result,
          cs_args, cs_result, ff_args, ff_result, load_cache, load_wordle,
          lb_messages, lb_combine, lb_load>>

parse_vars == <<messages, user_stats, wordle_pc, results>>

stats_vars == <<stats_pc, wordle_stats, top_winners>>

wordle_vars == <<parse_vars, stats_vars>>

discord_vars == <<chat_messages, chat_stats>>

hypixel_vars == <<xp_pc, xp_members, xp_year, xp_member_stats, xp_result>>

source_vars == <<discord_vars, hypixel_vars>>

combine_vars == <<cs_args, cs_result>>

facts_vars == <<ff_args, ff_result>>

board_vars == <<lb_messages, lb_combine, lb_load>>

fixed_vars == <<member_stats_columns, wordle_vars, source_vars, combine_vars, facts_vars, board_vars>>

\* no call of _generate_fun_facts on its own
FactsAtRest == ff_args = NoCall /\ ff_result = NoCall

\* no message list whose leaderboards are computed
BoardsAtRest == lb_messages = <<>> /\ lb_combine = NoCall /\ lb_load = NoCall

\* no call of combine_stats on its own
CombineAtRest == cs_args = NoCall /\ cs_result = NoCall

\* no call of DiscordService.calculate_stats
DiscordAtRest == chat_messages = <<>> /\ chat_stats = NoCall

\* no call of HypixelService.calculate_yearly_xp
HypixelAtRest ==
    /\ xp_pc = "idle" /\ xp_members = <<>> /\ xp_year = SettingsYear
    /\ xp_member_stats = <<>> /\ xp_result = NoCall

SourcesAtRest == DiscordAtRest /\ HypixelAtRest

hist_vars == <<saved, prev_saved, load_versions>>

save_vars == <<save_pc, save_arg, save_sid, save_todo, txn, save_result,
               nsaves, stale_conn>>

load_vars == <<load_pc, load_year, load_sid, load_guild, load_members,
               load_result, nloads, load_cache, load_wordle>>

Init ==
    /\ member_stats_columns \in {InitDbMemberColumns, ServiceMemberColumns}
    /\ db = EmptyDb
    /\ stale_conn = FALSE
    /\ save_pc = "idle" /\ save_arg = NoCall /\ save_sid = 0
    /\ save_todo = <<>> /\ txn = EmptyDb /\ save_result = NoCall
    /\ nsaves = 0
    /\ load_pc = "idle" /\ load_year = 0 /\ load_sid = 0
    /\ load_guild = None /\ load_members = <<>> /\ load_result = NoCall
    /\ load_cache = NoCall /\ load_wordle = NoCall
    /\ nloads = 0
    /\ saved = [y \in Years |-> NoCall]
    /\ prev_saved = [y \in Years |-> NoCall]
    /\ load_versions = {}
    /\ messages = <<>> /\ user_stats = <<>>
    /\ wordle_pc = "idle" /\ results = <<>>
    /\ stats_pc = "idle" /\ wordle_stats = NoCall /\ top_winners = NoCall
    /\ SourcesAtRest
    /\ CombineAtRest
    /\ FactsAtRest
    /\ BoardsAtRest

\* ------------------------------------------------- save_to_database, steps
\* mutant: the failing save commits what it has written so far
SaveRaiseCommitting(error, held) ==
    /\ save_pc' = "idle"
    /\ save_result' = Raised(error)
    /\ stale_conn' = held
    /\ db' = txn
    /\ UNCHANGED hist_vars

\* the exception leaves save_to_database: nothing was committed, and the
\* connection, never closed, keeps its transaction until it is collected
SaveRaise(error, held) ==
    /\ save_pc' = "idle"
    /\ save_result' = Raised(error)
    /\ stale_conn' = held
    /\ UNCHANGED <<db, hist_vars>>

\* mutant: a connection in autocommit mode, whose first statement is
\* committed at once
SaveCallAutocommit(summary) ==
    /\ save_pc = "idle"
    /\ nsaves < MaxSaves
    /\ nsaves' = nsaves + 1
    /\ save_arg' = summary
    /\ IF stale_conn
       THEN /\ SaveRaise("OperationalError", TRUE)
            /\ UNCHANGED <<save_sid, save_todo, txn>>
       ELSE LET r == InsertOrReplaceSnapshot(db, summary.year) IN
            /\ txn' = r.db
            /\ db' = r.db
            /\ save_sid' = r.lastrowid
            /\ save_pc' = "delete"
            /\ UNCHANGED <<save_todo, save_result, stale_conn, hist_vars>>
    /\ UNCHANGED <<fixed_vars, load_vars>>

\* connect and the first statement, INSERT OR REPLACE INTO wrapped_snapshots,
\* which opens the transaction; it fails while another connection holds the
\* write lock
SaveCall(summary) ==
    /\ save_pc = "idle"
    /\ nsaves < MaxSaves
    /\ nsaves' = nsaves + 1
    /\ save_arg' = summary
    /\ IF stale_conn
       THEN /\ SaveRaise("OperationalError", TRUE)
            /\ UNCHANGED <<save_sid, save_todo, txn>>
       ELSE LET r == InsertOrReplaceSnapshot(db, summary.year) IN
            /\ txn' = r.db
            /\ save_sid' = r.lastrowid
            /\ save_pc' = "delete"
            /\ UNCHANGED <<save_todo, save_result, stale_conn, db,
                           hist_vars>>
    /\ UNCHANGED <<fixed_vars, load_vars>>

SaveSnapshot(summary) == SaveCall(summary)

\* routes/admin.py refresh_data and scripts/fetch_data.py: combine_stats,
\* then save_to_database of its result
RefreshData(hypixel_stats, discord_stats, total_guild_xp) ==
    LET summary == combine_stats(hypixel_stats, discord_stats,
                                 "Chizza Guild", total_guild_xp)
    IN  IF summary.kind = "raised"
        THEN /\ save_pc = "idle"
             /\ nsaves < MaxSaves
             /\ nsaves' = nsaves + 1
             /\ save_result' = summary
             /\ UNCHANGED <<fixed_vars, db, stale_conn, save_pc,
                            save_arg, save_sid, save_todo, txn, hist_vars,
                            load_vars>>
        ELSE SaveCall(summary)

\* DELETE FROM member_stats WHERE snapshot_id = lastrowid
SaveDeleteMemberStats ==
    /\ save_pc = "delete"
    /\ txn' = DeleteMemberStats(txn, save_sid)
    /\ save_todo' = MemberInserts(save_arg, save_sid)
    /\ save_pc' = "members"
    /\ UNCHANGED <<fixed_vars, db, stale_conn, save_arg, save_sid,
                   save_result, nsaves, hist_vars, load_vars>>

\* one INSERT INTO member_stats; naming a column the table does not have
\* raises OperationalError
SaveInsertMember ==
    /\ save_pc = "members"
    /\ save_todo # <<>>
    /\ IF DOMAIN Head(save_todo) \subseteq member_stats_columns
       THEN /\ txn' = InsertMemberStats(txn, member_stats_columns,
                                        Head(save_todo))
            /\ save_todo' = Tail(save_todo)
            /\ UNCHANGED <<save_pc, save_result, stale_conn, db,
                           hist_vars>>
       ELSE /\ SaveRaise("OperationalError", TRUE)
            /\ UNCHANGED <<txn, save_todo>>
    /\ UNCHANGED <<fixed_vars, save_arg, save_sid, nsaves,
                   load_vars>>

\* INSERT OR REPLACE INTO guild_stats
SaveGuildStats ==
    /\ save_pc = "members"
    /\ save_todo = <<>>
    /\ txn' = InsertGuildStats(txn, GuildValues(save_sid, save_arg))
    /\ save_pc' = "commit"
    /\ UNCHANGED <<fixed_vars, db, stale_conn, save_arg, save_sid,
                   save_todo, save_result, nsaves, hist_vars,
                   load_vars>>

\* conn.commit(), conn.close(), return
SaveCommit ==
    /\ save_pc = "commit"
    /\ db' = txn
    /\ save_pc' = "idle"
    /\ save_result' = None
    /\ saved' = [saved EXCEPT ![save_arg.year] = save_arg]
    /\ prev_saved' = [prev_saved EXCEPT ![save_arg.year] = saved[save_arg.year]]
    /\ load_versions' = IF load_pc # "idle" /\ load_year = save_arg.year
                        THEN load_versions \cup {save_arg}
                        ELSE load_versions
    /\ UNCHANGED <<fixed_vars, stale_conn, save_arg, save_sid,
                   save_todo, txn, nsaves, load_vars>>

\* a statement after the first, or the commit, fails in the storage layer
\* (disk full, I/O error): sqlite3 raises and save_to_database does not
\* catch it
SaveWriteError ==
    /\ save_pc \in {"delete", "members", "commit"}
    /\ SaveRaise("OperationalError", TRUE)
    /\ UNCHANGED <<fixed_vars, save_arg, save_sid, save_todo, txn,
                   nsaves, load_vars>>

\* the connection of a failed save is collected: sqlite3 closes it, which
\* rolls its open transaction back and releases the write lock
ConnCollected ==
    /\ stale_conn
    /\ stale_conn' = FALSE
    /\ UNCHANGED <<fixed_vars, db, save_pc, save_arg, save_sid,
                   save_todo, txn, save_result, nsaves, hist_vars,
                   load_vars>>

\* ----------------------------------------------- load_from_database, steps
\* connect, SELECT * FROM wrapped_snapshots WHERE year = ?, and the return of
\* None when there is no row
LoadSnapshot(year) ==
    /\ load_pc = "idle"
    /\ nloads < MaxLoads
    /\ nloads' = nloads + 1
    /\ load_year' = year
    /\ load_versions' = {saved[year]}
    /\ LET snapshot == SelectSnapshot(db, year) IN
       IF snapshot = None
       THEN /\ load_result' = None
            /\ UNCHANGED <<load_pc, load_sid>>
       ELSE /\ load_sid' = snapshot.id
            /\ load_pc' = "guild"
            /\ load_result' = NoCall
    /\ load_cache' = NoCall
    /\ load_wordle' = NoCall
    /\ UNCHANGED <<fixed_vars, db, save_vars, saved, prev_saved,
                   load_guild,
                   load_members>>

\* SELECT * FROM guild_stats WHERE snapshot_id = ?
LoadGuildStats ==
    /\ load_pc = "guild"
    /\ load_guild' = SelectGuildStats(db, load_sid)
    /\ load_pc' = "members"
    /\ UNCHANGED <<fixed_vars, db, save_vars, hist_vars, load_year, load_sid,
                   load_members, load_result, nloads, load_cache,
                   load_wordle>>

\* SELECT * FROM member_stats WHERE snapshot_id = ? ORDER BY guild_xp DESC,
\* conn.close()
LoadMemberStats ==
    /\ load_pc = "members"
    /\ load_members' = SelectMemberStats(db, load_sid)
    /\ load_pc' = "convert"
    /\ UNCHANGED <<fixed_vars, db, save_vars, hist_vars, load_year, load_sid,
                   load_guild, load_result, nloads, load_cache, load_wordle>>

\* the conversion of the rows, the Wordle fields computed from the cache
\* file (when the conversion did not raise) and the return
LoadReturn(cache) ==
    /\ load_pc = "convert"
    /\ load_result' = LoadConvert(load_year, load_guild, load_members)
    /\ load_cache' = cache
    /\ load_wordle' = IF load_result'.kind = "raised" THEN NoCall
                      ELSE LoadWordle(cache)
    /\ load_pc' = "idle"
    /\ UNCHANGED <<fixed_vars, db, save_vars, hist_vars,
                   load_year, load_sid, load_guild, load_members, nloads>>

Next ==
    \/ \E summary \in Summaries : SaveSnapshot(summary)
    \/ \E h \in HypixelInputs, d \in DiscordInputs, x \in GuildXpInputs :
           RefreshData(h, d, x)
    \/ SaveDeleteMemberStats
    \/ SaveInsertMember
    \/ SaveGuildStats
    \/ SaveCommit
    \/ SaveWriteError
    \/ ConnCollected
    \/ \E year \in Years : LoadSnapshot(year)
    \/ LoadGuildStats
    \/ LoadMemberStats
    \/ \E cache \in CacheStates : LoadReturn(cache)

Spec == Init /\ [][Next]_vars

\* ------------------------------------------- parse_wordle_results, the call
\* the state of the store before any call
StoreIdle ==
    /\ member_stats_columns = InitDbMemberColumns
    /\ db = EmptyDb
    /\ stale_conn = FALSE
    /\ save_pc = "idle" /\ save_arg = NoCall /\ save_sid = 0
    /\ save_todo = <<>> /\ txn = EmptyDb /\ save_result = NoCall
    /\ nsaves = 0
    /\ load_pc = "idle" /\ load_year = 0 /\ load_sid = 0
    /\ load_guild = None /\ load_members = <<>> /\ load_result = NoCall
    /\ load_cache = NoCall /\ load_wordle = NoCall
    /\ nloads = 0
    /\ saved = [y \in Years |-> NoCall]
    /\ prev_saved = [y \in Years |-> NoCall]
    /\ load_versions = {}

\* and no call of combine_stats or _generate_fun_facts either
StoreAtRest == StoreIdle /\ CombineAtRest /\ FactsAtRest /\ BoardsAtRest

store_vars == <<member_stats_columns, db, save_vars, load_vars, hist_vars,
                combine_vars, facts_vars, board_vars>>

WordleInit ==
    /\ messages \in WordleInputs
    /\ user_stats \in UserStatsInputs
    /\ wordle_pc = "called"
    /\ results = <<>>
    /\ stats_pc = "idle" /\ wordle_stats = NoCall /\ top_winners = NoCall
    /\ StoreAtRest
    /\ SourcesAtRest

ParseWordleResults ==
    /\ wordle_pc = "called"
    /\ results' = parse_wordle_results(messages, user_stats)
    /\ wordle_pc' = "done"
    /\ UNCHANGED <<messages, user_stats, stats_vars, store_vars, source_vars>>

\* wordle_stats = calculate_stats(wordle_results)
CalculateStats ==
    /\ wordle_pc = "done"
    /\ stats_pc = "idle"
    /\ wordle_stats' = calculate_stats(results)
    /\ stats_pc' = "computed"
    /\ UNCHANGED <<parse_vars, top_winners, store_vars, source_vars>>

WordleNext == ParseWordleResults \/ CalculateStats

SpecWordle == WordleInit /\ [][WordleNext]_vars

\* ---------------------------------- calculate_stats on a list of any events
StatsInit ==
    /\ messages = <<>> /\ user_stats = <<>>
    /\ wordle_pc = "done"
    /\ \/ /\ results \in EventLists(MaxEvents)
          /\ stats_pc = "idle" /\ wordle_stats = NoCall
       \/ /\ results = <<>>
          /\ stats_pc = "given" /\ wordle_stats \in CallerStats
    /\ top_winners = NoCall
    /\ StoreAtRest
    /\ SourcesAtRest

\* get_top_winners(wordle_stats, limit)
GetTopWinners(limit) ==
    /\ stats_pc \in {"computed", "given"}
    /\ top_winners = NoCall
    /\ top_winners' = [limit |-> limit,
                       players |-> get_top_winners(wordle_stats, limit)]
    /\ UNCHANGED <<parse_vars, stats_pc, wordle_stats, store_vars, source_vars>>

StatsNext ==
    \/ CalculateStats
    \/ \E limit \in Limits : GetTopWinners(limit)

SpecStats == StatsInit /\ [][StatsNext]_vars

\* --------------------------------- DiscordService.calculate_stats, the call
WordleAtRest ==
    /\ messages = <<>> /\ user_stats = <<>>
    /\ wordle_pc = "idle" /\ results = <<>>
    /\ stats_pc = "idle" /\ wordle_stats = NoCall /\ top_winners = NoCall

DiscordInit ==
    /\ chat_messages \in ChatLists(MaxChat)
    /\ chat_stats = NoCall
    /\ HypixelAtRest
    /\ StoreAtRest
    /\ WordleAtRest

\* discord_stats = discord_service.calculate_stats(messages); the order of
\* the records is the iteration order of a set
DiscordCalculateStats ==
    /\ chat_stats = NoCall
    /\ \E order \in Orders(AllUserIds(Tally(chat_messages, EmptyTally))) :
           chat_stats' = discord_calculate_stats(chat_messages, order)
    /\ UNCHANGED <<chat_messages, hypixel_vars, store_vars, wordle_vars>>

DiscordNext == DiscordCalculateStats

SpecDiscord == DiscordInit /\ [][DiscordNext]_vars

\* ------------------------------ HypixelService.calculate_yearly_xp, steps
HypixelInit ==
    /\ xp_pc = "tally"
    /\ xp_members \in MemberLists(MaxMembers)
    /\ xp_year \in Years
    /\ xp_member_stats = <<>>
    /\ xp_result = NoCall
    /\ DiscordAtRest
    /\ StoreAtRest
    /\ WordleAtRest

\* the loop over the members
YearlyXpTally ==
    /\ xp_pc = "tally"
    /\ xp_member_stats' = [k \in 1..Len(xp_members) |->
                              MemberStatsOf(xp_members[k], xp_year)]
    /\ xp_pc' = "sort"
    /\ UNCHANGED <<xp_members, xp_year, xp_result, discord_vars, store_vars,
                   wordle_vars>>

\* the sort and the return
YearlyXpSort ==
    /\ xp_pc = "sort"
    /\ xp_result' = SortByParticipation(xp_member_stats)
    /\ xp_pc' = "done"
    /\ UNCHANGED <<xp_members, xp_year, xp_member_stats, discord_vars,
                   store_vars, wordle_vars>>

HypixelNext == YearlyXpTally \/ YearlyXpSort

SpecHypixel == HypixelInit /\ [][HypixelNext]_vars

\* ----------------------------------------------- combine_stats, the call
CombineInit ==
    /\ cs_args \in CombineArgs
    /\ cs_result = NoCall
    /\ StoreIdle
    /\ FactsAtRest
    /\ BoardsAtRest
    /\ SourcesAtRest
    /\ WordleAtRest

CombineStats ==
    /\ cs_result = NoCall
    /\ cs_result' = combine_stats(cs_args.hypixel_stats, cs_args.discord_stats,
                                  cs_args.guild_name, cs_args.total_guild_xp)
    /\ UNCHANGED <<cs_args, member_stats_columns, db, save_vars, load_vars,
                   hist_vars, source_vars, wordle_vars, facts_vars,
                   board_vars>>

CombineNext == CombineStats

SpecCombine == CombineInit /\ [][CombineNext]_vars

\* --------------------------------------------- _generate_fun_facts, a call
\* the leaders handed over: none, one with a value, one whose value is 0
FactEarners == {None, Alice(1), Bob(1), Dan(1)}
FactMessengers == {None, Dan(1), Bob(1)}

\* counts and sums are natural numbers
FactArgs ==
    {[total_members |-> n, total_xp |-> x, total_messages |-> m,
      new_members_count |-> j, most_active_day |-> day, top_earner |-> e,
      top_messenger |-> t] :
        n \in {0, 1, 3}, x \in {0, 2, 7}, m \in {0, 2, 5}, j \in {0, 1},
        day \in {"", "2025-03-01"}, e \in FactEarners, t \in FactMessengers}

FactsInit ==
    /\ ff_args \in FactArgs
    /\ ff_result = NoCall
    /\ StoreIdle
    /\ CombineAtRest
    /\ BoardsAtRest
    /\ SourcesAtRest
    /\ WordleAtRest

GenerateFunFacts ==
    /\ ff_result = NoCall
    /\ ff_result' =
           [kind |-> "facts",
            list |-> _generate_fun_facts(ff_args.total_members,
                         ff_args.total_xp, ff_args.total_messages,
                         ff_args.new_members_count, ff_args.most_active_day,
                         ff_args.top_earner, ff_args.top_messenger)]
    /\ UNCHANGED <<ff_args, member_stats_columns, db, save_vars, load_vars,
                   hist_vars, source_vars, wordle_vars, combine_vars,
                   board_vars>>

FactsNext == GenerateFunFacts

SpecFacts == FactsInit /\ [][FactsNext]_vars

\* ----------------------------------- the leaderboards of one message list
BoardsInit ==
    /\ lb_messages \in BoardLists(MaxBoard)
    /\ lb_combine = NoCall
    /\ lb_load = NoCall
    /\ StoreIdle
    /\ CombineAtRest
    /\ FactsAtRest
    /\ SourcesAtRest
    /\ WordleAtRest

\* refresh: DiscordService.calculate_stats(messages), then the Wordle block
\* of combine_stats(..., discord_messages=messages)
RefreshBoards(order) ==
    /\ lb_combine = NoCall
    /\ lb_combine' =
           CombineBoards(lb_messages,
                         discord_calculate_stats(lb_messages, order))
    /\ UNCHANGED <<lb_messages, lb_load, member_stats_columns, db, save_vars,
                   load_vars, hist_vars, source_vars, wordle_vars,
                   combine_vars, facts_vars>>

\* the Wordle block of load_from_database on the cache file that holds the
\* messages as they were fetched
ReloadBoards ==
    /\ lb_load = NoCall
    /\ lb_load' = LoadWordle(CacheOf(lb_messages))
    /\ UNCHANGED <<lb_messages, lb_combine, member_stats_columns, db,
                   save_vars, load_vars, hist_vars, source_vars, wordle_vars,
                   combine_vars, facts_vars>>

BoardsNext ==
    \/ \E order \in Orders(AllUserIds(Tally(lb_messages, EmptyTally))) :
           RefreshBoards(order)
    \/ ReloadBoards

SpecBoards == BoardsInit /\ [][BoardsNext]_vars

\* ========================================================== the properties
\* a load has returned (or raised) and its outcome is in load_result
LoadFinished == load_pc = "idle" /\ load_result # NoCall

\* a load has finished and no save of its year was committed since its
\* first SELECT: the load ran after the save recorded in saved[load_year]
LoadAfterSave ==
    /\ LoadFinished
    /\ load_versions = {saved[load_year]}
    /\ saved[load_year] # NoCall

Totals(summary) ==
    <<summary.total_members, summary.total_guild_xp, summary.total_messages,
      summary.new_members_count, summary.most_active_day>>

\* what a load returns when the summary is the only one ever saved
LoadOfSaveAlone(summary) ==
    LoadOutcome(CompleteSave(EmptyDb, member_stats_columns, summary),
                summary.year)

\* the identity of an entry of a ranked list
MemberKey(m) == <<m.uuid, m.username>>

Members(list) == {MemberKey(list[i]) : i \in 1..Len(list)}

\* C1: after save_to_database(S1) and then save_to_database(S2) of the same
\* year, load_from_database(year) returns a summary with the totals of S2 and
\* ranked lists built from the rows of S2 alone (replace, never merge).
C1_LoadReturnsSecondSaveOnly ==
    (LoadAfterSave /\ prev_saved[load_year] # NoCall) =>
        /\ load_result.kind = "summary"
        /\ Totals(load_result) = Totals(saved[load_year])
        /\ load_result = LoadOfSaveAlone(saved[load_year])

\* C2: save_to_database(S) followed by load_from_database(S.year) returns a
\* summary whose five aggregate totals equal those of S.
C2_TotalsRoundTrip ==
    LoadAfterSave =>
        /\ load_result.kind = "summary"
        /\ Totals(load_result) = Totals(saved[load_year])

\* C3: for a summary S produced by combine_stats, save then load returns
\* top_xp_earners equal to those of S with participation > 0, and
\* top_messengers, new_members, most_pinged and guild_veterans with the same
\* members as the lists of S.
C3_RankedListsRoundTrip ==
    (LoadAfterSave /\ saved[load_year] \in CombineOutputs) =>
        LET S == saved[load_year] IN
        /\ load_result.kind = "summary"
        /\ load_result.top_xp_earners =
               SelectSeq(S.top_xp_earners,
                         LAMBDA m : m.quest_participation > 0)
        /\ Members(load_result.top_messengers) = Members(S.top_messengers)
        /\ Members(load_result.new_members) = Members(S.new_members)
        /\ Members(load_result.most_pinged) = Members(S.most_pinged)
        /\ Members(load_result.guild_veterans) = Members(S.guild_veterans)

\* C4: a summary returned by the load after save_to_database(S) has the
\* guild_name and the fun_facts of S.
C4_NameAndFactsRoundTrip ==
    (LoadAfterSave /\ load_result.kind = "summary") =>
        /\ load_result.guild_name = saved[load_year].guild_name
        /\ load_result.fun_facts = saved[load_year].fun_facts

\* C5: after any sequence of saves every row of member_stats and of
\* guild_stats references a snapshot id that exists in wrapped_snapshots.
C5_NoOrphanRows ==
    LET ids == {r.id : r \in db.wrapped_snapshots} IN
    /\ \A i \in 1..Len(db.member_stats) : db.member_stats[i].snapshot_id \in ids
    /\ \A i \in 1..Len(db.guild_stats) : db.guild_stats[i].snapshot_id \in ids

C7_FailedSaveChangesNothing ==
    [][ /\ (db' # db => save_pc = "commit" /\ save_result' = None)
        /\ (save_pc # "idle" /\ save_pc' = "idle" /\ save_result' # None
               => save_result'.kind = "raised" /\ db' = db
                  /\ \A y \in Years : LoadOutcome(db', y) = LoadOutcome(db, y))
      ]_vars

\* a save has raised after it had replaced the snapshot row and inserted
\* member rows in its transaction, over an earlier committed snapshot
C7_Witness ==
    /\ save_pc = "idle"
    /\ save_result = Raised("OperationalError")
    /\ txn # db
    /\ Len(txn.member_stats) > Len(db.member_stats)
    /\ db.wrapped_snapshots # {}

\* C8: load_from_database returns None exactly when its year had no snapshot
\* row at its SELECT, and no step of a load changes a table.
C8_NoneIffNoSnapshot ==
    /\ [](LoadFinished => (load_result = None <=> NoCall \in load_versions))
    /\ [][(load_pc' # load_pc \/ load_result' # load_result
           \/ nloads' # nloads) => db' = db]_vars

\* a load of a year without snapshot has returned None while another year
\* has a snapshot
C8_Witness ==
    /\ LoadFinished
    /\ load_result = None
    /\ db.wrapped_snapshots # {}

\* C9: wrapped_snapshots holds at most one row per year and every snapshot
\* row has exactly one guild_stats row referencing it.
C9_OneSnapshotOneTotalsRow ==
    /\ \A r1, r2 \in db.wrapped_snapshots : r1.year = r2.year => r1 = r2
    /\ \A r \in db.wrapped_snapshots :
           Len(SelectSeq(db.guild_stats,
                         LAMBDA g : g.snapshot_id = r.id)) = 1

\* a year was saved twice: its snapshot row was replaced and the totals row
\* of the replaced snapshot is still stored
C9_Witness ==
    /\ \E y \in Years : prev_saved[y] # NoCall
    /\ Cardinality(db.wrapped_snapshots) = 1
    /\ Len(db.guild_stats) = 2


\* ------------------------------------------------------------------- C10
\* a user-mention token "<@digits>" occupies the indexes q..e-1 of s
IsMentionToken(s, q, e) ==
    /\ q >= 1 /\ e <= Len(s) + 1 /\ e >= q + 4
    /\ s[q] = "<" /\ s[q + 1] = "@" /\ s[e - 1] = ">"
    /\ \A i \in (q + 2)..(e - 2) : IsDigit(s[i])

TokenSpans(s) ==
    {t \in (1..Len(s)) \X (1..(Len(s) + 1)) : IsMentionToken(s, t[1], t[2])}

\* a result line starts at index p of s: a score character, "/6:", and from
\* index p+4 nothing but spaces up to a first mention token
ScoreAt(s, p) ==
    /\ p + 3 <= Len(s)
    /\ s[p] \in {"X"} \cup {Digits[d] : d \in 1..10}
    /\ s[p + 1] = "/" /\ s[p + 2] = "6" /\ s[p + 3] = ":"

\* the token at q..e-1 is a mention of the result line that starts at p: all
\* that lies between the colon and the token is spaces and mention tokens
MentionOfLine(s, p, t) ==
    /\ ScoreAt(s, p)
    /\ t[1] >= p + 4
    /\ \A i \in (p + 4)..(t[1] - 1) :
           \/ IsSpace(s[i])
           \/ \E u \in TokenSpans(s) :
                  u[1] >= p + 4 /\ u[1] <= i /\ i < u[2] /\ u[2] <= t[1]

\* the author name is 'wordle' up to the case of its letters
IsNamedWordle(name) ==
    /\ Len(name) = Len(WordleName)
    /\ \A i \in 1..Len(WordleName) : LowerChar(name[i]) = WordleName[i]

\* the mention tokens of the result lines of one content, as
\* <<message index, line start, token start, token end>>
ContentTokens(i, s) ==
    {<<i, p, t[1], t[2]>> : p \in {q \in 1..Len(s) : ScoreAt(s, q)},
                            t \in TokenSpans(s)}

\* those of the result lines in the messages of the Wordle bot
ExpectedTokens ==
    UNION {{x \in ContentTokens(i, messages[i].content) :
               MentionOfLine(messages[i].content, x[2], <<x[3], x[4]>>)} :
           i \in {j \in 1..Len(messages) :
                     IsNamedWordle(messages[j].author_name)}}

TokenBefore(x, y) ==
    \/ x[1] < y[1]
    \/ x[1] = y[1] /\ x[2] < y[2]
    \/ x[1] = y[1] /\ x[2] = y[2] /\ x[3] < y[3]

\* the event the claim expects for a token
ExpectedEvent(x) ==
    LET s == messages[x[1]].content
        id == SubSeq(s, x[3] + 2, x[4] - 2)
        names == IdToUsername(user_stats)
    IN  [author_name |-> IF id \in DOMAIN names THEN names[id]
                         ELSE UserPrefix \o id,
         wordle_number |-> 0,
         guesses |-> IF s[x[2]] = "X" THEN 7 ELSE DigitValue(s[x[2]]),
         is_win |-> s[x[2]] # "X"]

\* C10: parse_wordle_results returns, in the order of the messages, of the
\* result lines in a message and of the mentions in a line, exactly one event
\* per user-mention token of every result line "<score>/6: <mention>+" in the
\* messages whose author is 'wordle' in any letter case, and nothing else;
\* the events of a line have guesses 7 and is_win false when the score is X,
\* and the digit as guesses and is_win true otherwise
C10_OneEventPerMention ==
    wordle_pc = "done" =>
        LET T == ExpectedTokens
        IN  /\ Len(results) = Cardinality(T)
            /\ \A x \in T :
                   results[Cardinality({y \in T : TokenBefore(y, x)}) + 1]
                       = ExpectedEvent(x)

\* the bot's message with a three-mention line was parsed into three events
\* with the same values
C10_Witness ==
    /\ wordle_pc = "done"
    /\ Len(messages) = 1
    /\ messages[1].content = ThreeMentions
    /\ Len(results) = 3
    /\ \A k \in 1..3 : results[k].guesses = 3 /\ results[k].is_win


\* ------------------------------------------------------------------- C11
\* the score at index p is a digit 1..6 that is not the tail of a number, or X
ValidScoreAt(s, p) ==
    /\ ScoreAt(s, p)
    /\ \/ s[p] = "X"
       \/ /\ s[p] \in {Digits[d] : d \in 2..7}
          /\ (p = 1 \/ ~IsDigit(s[p - 1]))

\* C11: every event parse_wordle_results emits is a win with guesses in 1..6
\* or a failure with guesses 7, and only the lines whose score is X or a
\* single digit 1..6 (not the tail of a longer number) yield events
C11_EventsInRange ==
    wordle_pc = "done" =>
        /\ \A k \in DOMAIN results :
               \/ results[k].is_win /\ results[k].guesses \in 1..6
               \/ ~results[k].is_win /\ results[k].guesses = 7
        /\ Len(results) = Cardinality(
               {x \in ExpectedTokens :
                   ValidScoreAt(messages[x[1]].content, x[2])})


\* ------------------------------------------------------------------- C13
\* the indexes of the events of a name
EventsOf(name) == {i \in DOMAIN results : results[i].author_name = name}

FirstEventOf(name) ==
    CHOOSE i \in EventsOf(name) : \A j \in EventsOf(name) : i <= j

RECURSIVE SumTotalGames(_)
SumTotalGames(stats) ==
    IF stats = <<>> THEN 0
    ELSE Head(stats).total_games + SumTotalGames(Tail(stats))

\* C13: calculate_stats returns one record per distinct author_name (names
\* compared exactly) in the order of the names' first events, each record
\* counting exactly the events of its name with wins + losses = total_games
\* >= 1; total_games of the stats is the number of events, the sum of
\* total_wins and total_losses, and the sum of the players' total_games
C13_OneRecordPerName ==
    stats_pc = "computed" =>
        LET us == wordle_stats.user_stats
        IN  /\ \A i \in DOMAIN results :
                   \E k \in DOMAIN us : us[k].username = results[i].author_name
            /\ \A j, k \in DOMAIN us :
                   j < k => /\ us[j].username # us[k].username
                            /\ FirstEventOf(us[j].username)
                                   < FirstEventOf(us[k].username)
            /\ \A k \in DOMAIN us :
                   /\ EventsOf(us[k].username) # {}
                   /\ us[k].total_games = Cardinality(EventsOf(us[k].username))
                   /\ us[k].wins = Cardinality(
                          {i \in EventsOf(us[k].username) : results[i].is_win})
                   /\ us[k].losses = Cardinality(
                          {i \in EventsOf(us[k].username) : ~results[i].is_win})
                   /\ us[k].wins + us[k].losses = us[k].total_games
                   /\ us[k].total_games >= 1
            /\ wordle_stats.total_games = Len(results)
            /\ wordle_stats.total_games
                   = wordle_stats.total_wins + wordle_stats.total_losses
            /\ wordle_stats.total_games = SumTotalGames(us)

\* stats were computed for events of 'ann' and 'Ann', the second name first,
\* where 'ann' has won and lost
C13_Witness ==
    /\ stats_pc = "computed"
    /\ Len(results) = 3
    /\ Len(wordle_stats.user_stats) = 2
    /\ wordle_stats.user_stats[1].username = <<"A", "n", "n">>
    /\ wordle_stats.user_stats[2].username = Ann
    /\ wordle_stats.user_stats[2].wins = 1
    /\ wordle_stats.user_stats[2].losses = 1


\* ------------------------------------------------------------------- C12
\* the id text of a mention token
TokenId(x) == SubSeq(messages[x[1]].content, x[3] + 2, x[4] - 2)

\* the names the caller's user_stats give for an id
MappedNames(id) ==
    {user_stats[i].username :
        i \in {j \in DOMAIN user_stats : Str(user_stats[j].user_id) = id}}

\* C12: the event of a mention whose id is in the caller's mapping carries
\* the mapped name, the event of a mention whose id is not in the mapping
\* carries 'User_' followed by the id; no mention of a matching line is
\* dropped, and calculate_stats has a record for the name of every mention
C12_MappedNameOrPlaceholder ==
    wordle_pc = "done" =>
        LET T == ExpectedTokens
            EventOfToken(x) ==
                results[Cardinality({y \in T : TokenBefore(y, x)}) + 1]
            Counted ==
                IF stats_pc = "computed"
                THEN {wordle_stats.user_stats[k].username :
                         k \in DOMAIN wordle_stats.user_stats}
                ELSE {}
        IN  /\ Len(results) = Cardinality(T)
            /\ \A x \in T :
                   LET name == EventOfToken(x).author_name
                       mapped == MappedNames(TokenId(x))
                   IN  /\ mapped # {} => name \in mapped
                       /\ mapped = {} => name = UserPrefix \o TokenId(x)
                       /\ stats_pc = "computed" => name \in Counted

\* a line mentioning the ids 1 (mapped to 'ann') and 22 (not mapped) was
\* parsed and counted
C12_Witness ==
    /\ stats_pc = "computed"
    /\ user_stats = <<WordleUser(1, Ann)>>
    /\ Len(results) = 2
    /\ results[1].author_name = Ann
    /\ results[2].author_name = UserPrefix \o <<"2", "2">>
    /\ Len(wordle_stats.user_stats) = 2


\* ------------------------------------------------------------------- C14
\* the place of a record in stats.user_stats
PlaceOf(u) ==
    CHOOSE i \in DOMAIN wordle_stats.user_stats :
        /\ wordle_stats.user_stats[i] = u
        /\ \A j \in DOMAIN wordle_stats.user_stats :
               wordle_stats.user_stats[j] = u => i <= j

\* C14: get_top_winners returns at most limit players (as many of the
\* players with a game as the limit allows), all of stats.user_stats and all
\* with at least one game; of two returned players the one with more wins
\* comes first whatever the win rates, with equal wins the one with the
\* higher win rate, and with both equal the one that is earlier in
\* stats.user_stats
C14_TopWinnersOrder ==
    top_winners # NoCall =>
        LET out == top_winners.players
            src == wordle_stats.user_stats
        IN  /\ Len(out) <= top_winners.limit
            /\ Len(out) = Min(top_winners.limit,
                              Cardinality({i \in DOMAIN src :
                                              src[i].total_games >= 1}))
            /\ \A k \in DOMAIN out :
                   /\ out[k].total_games >= 1
                   /\ \E i \in DOMAIN src : src[i] = out[k]
            /\ \A j, k \in DOMAIN out :
                   j < k =>
                       \/ out[j].wins > out[k].wins
                       \/ /\ out[j].wins = out[k].wins
                          /\ out[j].win_rate > out[k].win_rate
                       \/ /\ out[j].wins = out[k].wins
                          /\ out[j].win_rate = out[k].win_rate
                          /\ PlaceOf(out[j]) <= PlaceOf(out[k])

\* a player with two wins of three games is returned before a player with
\* one win of one game, who is first in stats.user_stats
C14_Witness ==
    /\ top_winners # NoCall
    /\ Len(top_winners.players) = 2
    /\ top_winners.players[1].wins = 2
    /\ top_winners.players[1].win_rate = 667
    /\ top_winners.players[2].wins = 1
    /\ top_winners.players[2].win_rate = 1000
    /\ wordle_stats.user_stats[1] = top_winners.players[2]


\* ------------------------------------------------------------------- C15
\* the date portion of the timestamp of message i
DayOfMessage(i) ==
    SubSeq(chat_messages[i].timestamp, 1,
           Min(10, Len(chat_messages[i].timestamp)))

MessagesOfDay(day) == {i \in DOMAIN chat_messages : DayOfMessage(i) = day}

\* C15: most_active_day is the date portion (the first 10 characters of the
\* timestamp) that occurs in the most messages, of several such days the
\* one whose first message is the earliest, and the empty string for an
\* empty message list
C15_MostActiveDay ==
    chat_stats # NoCall =>
        IF chat_messages = <<>> THEN chat_stats.most_active_day = <<>>
        ELSE \E i \in DOMAIN chat_messages :
                 /\ chat_stats.most_active_day = DayOfMessage(i)
                 /\ \A j \in DOMAIN chat_messages :
                        LET mine == MessagesOfDay(DayOfMessage(i))
                            other == MessagesOfDay(DayOfMessage(j))
                        IN  \/ Cardinality(other) < Cardinality(mine)
                            \/ /\ Cardinality(other) = Cardinality(mine)
                               /\ \E m \in mine : \A o \in other : m <= o

\* March 2 and March 1 have one message each, the message of March 2 comes
\* first, and March 2 was returned
C15_Witness ==
    /\ chat_stats # NoCall
    /\ Len(chat_messages) = 2
    /\ DayOfMessage(1) = MarchSecond
    /\ DayOfMessage(2) = MarchFirst
    /\ chat_stats.most_active_day = MarchSecond


\* ------------------------------------------------------------------- C16
AuthoredBy(id) == {i \in DOMAIN chat_messages : chat_messages[i].author_id = id}

\* the mention occurrences of an id, as <<message, place in its mentions>>
MentionsOf(id) ==
    UNION {{<<i, k>> : k \in {m \in DOMAIN chat_messages[i].mentions :
                                 chat_messages[i].mentions[m] = id}} :
           i \in DOMAIN chat_messages}

Identities ==
    {chat_messages[i].author_id : i \in DOMAIN chat_messages}
        \cup UNION {Range(chat_messages[i].mentions) :
                       i \in DOMAIN chat_messages}

\* C16: calculate_stats returns exactly one record per identity that is an
\* author or a mention target; message_count is the number of messages of
\* that author, times_pinged the number of mention occurrences of the id,
\* username the author_name of the author's last message or 'Unknown' for
\* an id that never authored; the message_counts add up to total_messages,
\* the number of messages
C16_OneRecordPerIdentity ==
    chat_stats # NoCall =>
        LET us == chat_stats.user_stats
        IN  /\ {us[k].user_id : k \in DOMAIN us} = Identities
            /\ Len(us) = Cardinality(Identities)
            /\ \A k \in DOMAIN us :
                   LET mine == AuthoredBy(us[k].user_id)
                   IN  /\ us[k].message_count = Cardinality(mine)
                       /\ us[k].times_pinged
                              = Cardinality(MentionsOf(us[k].user_id))
                       /\ IF mine = {} THEN us[k].username = "Unknown"
                          ELSE \E i \in mine :
                                   /\ \A j \in mine : j <= i
                                   /\ us[k].username
                                          = chat_messages[i].author_name
            /\ SumField(us, "message_count") = chat_stats.total_messages
            /\ chat_stats.total_messages = Len(chat_messages)

\* id 1 wrote as 'ann' and then as 'al', id 3 never wrote and was mentioned
\* twice in one message
C16_Witness ==
    /\ chat_stats # NoCall
    /\ \E k \in DOMAIN chat_stats.user_stats :
           chat_stats.user_stats[k]
               = UserMessageStats(1, "al", 2, 0)
    /\ \E k \in DOMAIN chat_stats.user_stats :
           chat_stats.user_stats[k]
               = UserMessageStats(3, "Unknown", 0, 2)
    /\ chat_messages[1].author_name = "ann"


\* ------------------------------------------------------------------- C17
\* the key is the text of a date of the year
IsDateOfYear(key, year) ==
    /\ key.form = "y-m-d"
    /\ key.year = year
    /\ key.month \in 1..12
    /\ key.day \in 1..DaysIn(key.year, key.month)

RECURSIVE SumXpAt(_, _)
SumXpAt(items, idx) ==
    IF idx = {} THEN 0
    ELSE LET i == CHOOSE j \in idx : TRUE
         IN  items[i][2] + SumXpAt(items, idx \ {i})

\* the sum of the experience values whose key is a date of the year, taken
\* over the entries as a set
XpOfYear(member, year) ==
    SumXpAt(member.exp_history,
            {i \in DOMAIN member.exp_history :
                IsDateOfYear(member.exp_history[i][1], year)})

\* calculate_yearly_xp has returned a list with one record per member
YearlyXpReturned ==
    /\ xp_result # NoCall
    /\ xp_result.kind = "list"
    /\ Len(xp_result.list) = Len(xp_members)

\* C17: calculate_yearly_xp returns, for each member, a record whose
\* total_xp is the sum of the experience values whose date key is a date
\* from Jan 1 to Dec 31 of the target year; entries of other years and
\* malformed keys add nothing and raise nothing, in whatever order the
\* mapping is iterated
C17_YearlyXpIsYearSum ==
    xp_pc = "done" =>
        /\ YearlyXpReturned
        /\ \A k \in DOMAIN xp_members :
               \E r \in DOMAIN xp_result.list :
                   /\ xp_result.list[r].uuid = xp_members[k].uuid
                   /\ xp_result.list[r].joined_timestamp = xp_members[k].joined
                   /\ xp_result.list[r].total_xp
                          = XpOfYear(xp_members[k], xp_year)

\* the totals as they stand in member_stats before the sort
TalliedXpIsYearSum ==
    xp_pc \in {"sort", "done"} =>
        /\ Len(xp_member_stats) = Len(xp_members)
        /\ \A k \in DOMAIN xp_members :
               xp_member_stats[k].total_xp = XpOfYear(xp_members[k], xp_year)

\* ------------------------------------------------------------------- C18
\* C18: calculate_yearly_xp returns joined_this_year true for exactly the
\* members whose join timestamp lies in the target calendar year, from the
\* first instant of Jan 1 through the last millisecond of Dec 31
C18_JoinedThisYear ==
    xp_pc = "done" =>
        /\ YearlyXpReturned
        /\ \A k \in DOMAIN xp_members :
               \E r \in DOMAIN xp_result.list :
                   /\ xp_result.list[r].uuid = xp_members[k].uuid
                   /\ xp_result.list[r].joined_timestamp = xp_members[k].joined
                   /\ xp_result.list[r].joined_this_year
                          = (xp_members[k].joined.year = xp_year)

\* the flags as they stand in member_stats before the sort; refuted by a
\* join in the last second of Dec 31 after its first millisecond, which
\* end_date (23:59:59 sharp) leaves out
TalliedJoinedThisYear ==
    xp_pc \in {"sort", "done"} =>
        \A k \in DOMAIN xp_members :
            xp_member_stats[k].joined_this_year
                = (xp_members[k].joined.year = xp_year)

\* ------------------------------------------------------------------- C19
\* C19: for a non-empty member list calculate_yearly_xp completes and
\* returns one record per member with the member's participation counter,
\* the records in descending order of the counter and, for equal counters,
\* in the order of the members
C19_SortedByParticipation ==
    (xp_pc = "done" /\ xp_members # <<>>) =>
        /\ YearlyXpReturned
        /\ \A r \in DOMAIN xp_result.list :
               "quest_participation" \in DOMAIN xp_result.list[r]
        /\ \E place \in [DOMAIN xp_members -> DOMAIN xp_members] :
               /\ \A j, k \in DOMAIN xp_members : j # k => place[j] # place[k]
               /\ \A k \in DOMAIN xp_members :
                      /\ xp_result.list[place[k]].uuid = xp_members[k].uuid
                      /\ xp_result.list[place[k]].quest_participation
                             = xp_members[k].quest_participation
               /\ \A j, k \in DOMAIN xp_members :
                      place[j] < place[k] =>
                          \/ xp_members[j].quest_participation
                                 > xp_members[k].quest_participation
                          \/ /\ xp_members[j].quest_participation
                                    = xp_members[k].quest_participation
                             /\ j < k


\* ------------------------------------------------------------------- C20
\* C20: in the summary combine_stats returns, top_xp_earners has at most 10
\* entries, each built from a record of hypixel_stats (a membership entry,
\* never a message row), no record left out has a strictly higher
\* participation count than a record in the list, and the list is in
\* descending order of the participation count, records with equal counts
\* in the order of hypixel_stats
C20_TopEarnersByParticipation ==
    cs_result # NoCall =>
        /\ cs_result.kind = "summary"
        /\ LET top == cs_result.top_xp_earners
               hs == cs_args.hypixel_stats
           IN  /\ Len(top) <= 10
               /\ Len(top) = Min(10, Len(hs))
               /\ \E place \in [DOMAIN top -> DOMAIN hs] :
                      /\ \A j, k \in DOMAIN top :
                             j < k =>
                                 /\ place[j] # place[k]
                                 /\ \/ hs[place[j]].quest_participation
                                           > hs[place[k]].quest_participation
                                    \/ /\ hs[place[j]].quest_participation
                                              = hs[place[k]].quest_participation
                                       /\ place[j] < place[k]
                      /\ \A k \in DOMAIN top :
                             /\ top[k].uuid = hs[place[k]].uuid
                             /\ top[k].quest_participation
                                    = hs[place[k]].quest_participation
                             /\ top[k].discord_messages = 0
                      /\ \A i \in DOMAIN hs :
                             (\A k \in DOMAIN top : place[k] # i) =>
                                 \A k \in DOMAIN top :
                                     hs[i].quest_participation
                                         <= top[k].quest_participation


\* ------------------------------------------------------------------- C21
\* C21: in the summary combine_stats returns, new_members holds every
\* record of hypixel_stats flagged joined_this_year and nothing else,
\* however many, in descending order of the join timestamp, and
\* new_members_count is the length of the list
C21_NewMembers ==
    cs_result # NoCall =>
        /\ cs_result.kind = "summary"
        /\ LET new == cs_result.new_members
               hs == cs_args.hypixel_stats
               flagged == {i \in DOMAIN hs : hs[i].joined_this_year}
           IN  /\ Len(new) = Cardinality(flagged)
               /\ cs_result.new_members_count = Len(new)
               /\ \A i \in flagged :
                      \E k \in DOMAIN new :
                          /\ new[k].uuid = hs[i].uuid
                          /\ new[k].joined_timestamp = hs[i].joined_timestamp
               /\ \A k \in DOMAIN new :
                      /\ new[k].joined_this_year
                      /\ \E i \in flagged : new[k].uuid = hs[i].uuid
               /\ \A j, k \in DOMAIN new :
                      j < k => new[j].joined_timestamp
                                   >= new[k].joined_timestamp

\* ------------------------------------------------------------------- C22
\* the message rows of the arguments that have mentions, by their place
PingedUsers ==
    {i \in DOMAIN cs_args.discord_stats.user_stats :
        cs_args.discord_stats.user_stats[i].times_pinged > 0}

\* C22: in a summary combine_stats returns, most_pinged is the first 10 of
\* the message rows with a mention count above 0 in descending order of the
\* count (equal counts in the order of user_stats): no entry has zero
\* mentions, and there are min(10, number of rows with mentions) entries
C22_MostPinged ==
    (cs_result # NoCall /\ cs_result.kind = "summary") =>
        LET mp == cs_result.most_pinged
            us == cs_args.discord_stats.user_stats
            Before(i, j) == \/ us[i].times_pinged > us[j].times_pinged
                            \/ us[i].times_pinged = us[j].times_pinged /\ i < j
            RankOf(i) == 1 + Cardinality({j \in PingedUsers : Before(j, i)})
        IN  /\ Len(mp) = Min(10, Cardinality(PingedUsers))
            /\ \A k \in DOMAIN mp : mp[k].times_pinged > 0 /\ mp[k].uuid = ""
            /\ \A i \in PingedUsers :
                   RankOf(i) <= 10 =>
                       /\ mp[RankOf(i)].times_pinged = us[i].times_pinged
                       /\ mp[RankOf(i)].discord_messages = us[i].message_count
                       /\ mp[RankOf(i)].username = us[i].username

\* of 13 users 11 have mentions: most_pinged was cut to 10 entries
C22_Witness ==
    /\ cs_result # NoCall
    /\ cs_result.kind = "summary"
    /\ Cardinality(PingedUsers) > 10
    /\ Cardinality(PingedUsers) < Len(cs_args.discord_stats.user_stats)
    /\ Len(cs_result.most_pinged) = 10

\* C23: in every summary returned by combine_stats and by
\* load_from_database, guild_veterans holds only entries with a join
\* timestamp above 0, in ascending order of join timestamp, and at most 12
\* of them; an entry without a join timestamp is never taken, also when
\* fewer than 12 entries have one.
VeteransWellFormed(summary) ==
    LET v == summary.guild_veterans IN
    /\ Len(v) <= VeteranLimit
    /\ \A i \in 1..Len(v) : v[i].joined_timestamp > 0
    /\ \A i \in 1..Len(v), j \in 1..Len(v) :
           i < j => v[i].joined_timestamp <= v[j].joined_timestamp

C23_GuildVeterans ==
    /\ load_result.kind = "summary" => VeteransWellFormed(load_result)
    /\ \A s \in CombineOutputs :
           s.kind = "summary" => VeteransWellFormed(s)

\* a load returned 12 veterans out of more rows with a join date, and the
\* snapshot also holds a new member without a join date
C23_Witness ==
    /\ load_result.kind = "summary"
    /\ Len(load_result.guild_veterans) = VeteranLimit
    /\ Cardinality({i \in 1..Len(load_result.new_members) :
                       load_result.new_members[i].joined_timestamp > 0})
           > VeteranLimit
    /\ \E i \in 1..Len(load_result.new_members) :
           load_result.new_members[i].joined_timestamp = 0

\* C24: _generate_fun_facts emits a sentence only for a value that is not
\* zero and not empty: no sentence of the list it returns reports the value
\* 0 or an empty text, the two per-member averages included.
ReportsNothing(fact) ==
    IF fact[1] = "Most active day:" THEN fact[2] = ""
    ELSE fact[Len(fact)] = 0

C24_NoZeroValueSentence ==
    ff_result # NoCall =>
        \A i \in 1..Len(ff_result.list) : ~ReportsNothing(ff_result.list[i])

\* C25: a load of a snapshot whose member rows are rows of the table as
\* init_db.py creates it (they have no participation count) completes
\* without error, and the top_xp_earners it returns hold only entries with a
\* participation above 0, so none of those members.
C25_LegacyRowsLoad ==
    (LoadFinished /\ member_stats_columns = InitDbMemberColumns) =>
        /\ load_result.kind # "raised"
        /\ load_result.kind = "summary" =>
               \A i \in 1..Len(load_result.top_xp_earners) :
                   load_result.top_xp_earners[i].quest_participation > 0

\* C26: when the cache file of the year is absent, holds an empty list or
\* cannot be loaded, load_from_database of an existing snapshot still returns
\* the summary, with wordle_top_winners = [], wordle_top_failures = [] and
\* total_wordle_games = 0; no failure reaches the caller.
DegradedCache == load_cache \in {AbsentCache, CorruptCache, CacheOf(<<>>)}

C26_CacheFailureDegrades ==
    (LoadFinished /\ load_result # None /\ DegradedCache) =>
        /\ load_result.kind = "summary"
        /\ load_wordle = NoBoards

\* C27: the top_messengers of a summary load_from_database returns hold only
\* message rows (rows stored from the saved top_messengers, their identity
\* key is empty), at most 10 of them, in descending order of message count;
\* a membership row never appears among them, also when fewer than 10
\* messenger rows were stored.
C27_TopMessengersOnLoad ==
    (LoadFinished /\ load_result.kind = "summary") =>
        LET t == load_result.top_messengers IN
        /\ Len(t) <= TopLimit
        /\ \A i \in 1..Len(t) : t[i].uuid = ""
        /\ \A i \in 1..Len(t), j \in 1..Len(t) :
               i < j => t[i].discord_messages >= t[j].discord_messages

C29_SameBoardsOnLoad ==
    (lb_combine # NoCall /\ lb_load # NoCall) => lb_combine = lb_load

====
